---- MODULE Spec2Model ----
(***************************************************************************)
(* A model of the syntactic front-end of the Cobalt compiler               *)
(* (thocunningham/cobalt): the recursive-descent parser of                 *)
(* cmd/syntax/parser.go as a machine with an explicit call stack, and the  *)
(* scanner of cmd/syntax/scanner.go over the buffered rune reader.         *)
(***************************************************************************)
EXTENDS Integers, Sequences, FiniteSets, TLC

(***************************************************************************)
(* Bounds of the model.                                                    *)
(***************************************************************************)
\* tokens the token source may choose freely, between a template's two ends
MaxFree == 3
\* iterations of a loop that change nothing in the parser are counted modulo MaxSpin + 1
MaxSpin == 1
\* longest source text handed to the scanner
MaxText == 5
\* goroutines that call insert and lookup concurrently
MaxProcs == 2
\* scopes, each nested in the one before
MaxScopes == 2
\* symbols handed to Scope.Insert (the first two share a name)
MaxSyms == 3
\* calls of Scope.Insert in a run
MaxInserts == 4
\* lines of a file in which the positions handed to Scope.Contains lie
MaxLine == 2
\* calls of the methods of a Value in a run
MaxCalls == 2
\* the floats that the model follows are the multiples of 1/2 up to MaxHalves / 2
MaxHalves == 32768
\* frames of the goroutine that uses the escape mechanism
MaxDepth == 3
\* panics raised in a run of that goroutine
MaxPanics == 2
\* symbols declared in the Universe after Init
MaxDecls == 3
\* the longest input of the source, in bytes
MaxInput == 4
\* the sizes of nextSize, in bytes: the smallest buffer (4K in the source)
\* and the largest that is still doubled (1M in the source)
MinSize == 4
MaxDouble == 8

(***************************************************************************)
(* Tokens and operators (tokens.go).                                       *)
(***************************************************************************)
precOrOr == 1
precAndAnd == 2
precCmp == 3
precAdd == 4
precMul == 5

\* a token as the scanner leaves it in tok, lit, kind, op, prec
Tk(tok) == [tok |-> tok, lit |-> "", kind |-> "", op |-> "0", prec |-> 0]
NameTok(lit) == [Tk("_Name") EXCEPT !.lit = lit]
LitTok(lit, kind) == [Tk("_Literal") EXCEPT !.lit = lit, !.kind = kind]
OpTok(op, prec) == [Tk("_Operator") EXCEPT !.op = op, !.prec = prec]
AssignOpTok(op, prec) == [Tk("_AssignOp") EXCEPT !.op = op, !.prec = prec]
StarTok == [Tk("_Star") EXCEPT !.op = "Mul", !.prec = precMul]
EOFTok == Tk("_EOF")
\* stands for a call of next() that bails out with a scan or I/O error
ScanErrorTok == Tk("scan error")

\* every (op, prec) pair next() can leave behind with tok = _Operator
ScanOperators ==
    { OpTok("Add", precAdd), OpTok("Inc", precAdd), OpTok("Sub", precAdd),
      OpTok("Dec", precAdd), OpTok("Div", precMul), OpTok("Rem", precMul),
      OpTok("AndAnd", precAndAnd), OpTok("And", precMul), OpTok("OrOr", precOrOr),
      OpTok("Or", precAdd), OpTok("Xor", precAdd), OpTok("Leq", precCmp),
      OpTok("Shl", precMul), OpTok("Lss", precCmp), OpTok("Geq", precCmp),
      OpTok("Shr", precMul), OpTok("Gtr", precCmp), OpTok("Eql", precCmp),
      OpTok("Neq", precCmp), OpTok("LNot", 0), OpTok("Not", 0) }

(***************************************************************************)
(* Source positions (package src).                                         *)
(***************************************************************************)
linebits == 20
colbits == 12
LineMax == 2^linebits - 1
ColMax == 2^colbits - 1

Min(a, b) == IF a < b THEN a ELSE b

lico(line, col) == Min(line, LineMax) * 2^colbits + Min(col, ColMax)

NoPos == [index |-> 0, lico |-> 0]

Known(pos) == pos.index # 0

Before(a, b) == a.index # 0 /\ a.index = b.index /\ a.lico < b.lico

After(a, b) == a.index # 0 /\ a.index = b.index /\ a.lico > b.lico

\* the index insert(filename) returns for the table names
insertIndex(names, filename) ==
    IF filename = "" THEN 0
    ELSE IF \E i \in 1..Len(names) : names[i] = filename
         THEN CHOOSE i \in 1..Len(names) : names[i] = filename
         ELSE Len(names) + 1

\* the table after insert(filename)
insertTable(names, filename) ==
    IF filename = "" \/ (\E i \in 1..Len(names) : names[i] = filename)
    THEN names
    ELSE Append(names, filename)

MakePos(names, filename, line, col) ==
    [index |-> insertIndex(names, filename), lico |-> lico(line, col)]

(***************************************************************************)
(* Syntax tree nodes (nodes.go).  A nil interface or pointer is Nil.       *)
(***************************************************************************)
Nil == [node |-> "nil"]

IsNil(x) == x.node = "nil"

\* a slice handed back by a function
Slice(list) == [node |-> "[]", list |-> list]

\* a syntax.Error
Error(pos, msg) == [node |-> "Error", Pos |-> pos, Msg |-> msg]

(***************************************************************************)
(* State.                                                                  *)
(*   fname              the name argument of Parse (source.file)           *)
(*   p                  the scanner fields the parser reads: the current   *)
(*                      token (tok, lit, kind, op, prec) and its line, col *)
(*   pre, free, post    the token source: tokens still to come, fixed      *)
(*                      (pre, post) and freely chosen (free of them)       *)
(*   scanned            the tokens next() has delivered so far             *)
(*   stack, ret         the call stack of the parser and the value the     *)
(*                      last return handed to its caller                   *)
(*   mode, payload      "run", "panic" (a bail-out is unwinding, carrying  *)
(*                      payload) or "returned" (Parse has returned)        *)
(*   file, err          the results of Parse                               *)
(*   nerrors            calls of Bailout so far                            *)
(*   spin               counts, modulo MaxSpin + 1, the iterations of the  *)
(*                      loop of postfixUnary that changed nothing else     *)
(*   namelist           the file table of package src                      *)
(*   scanner            the scanner over its source text: the reader's     *)
(*                      buf, r, b, line and col (srcline, srccol), ch, chw *)
(*                      and the scanner's line, col, lit, tok, kind, op,   *)
(*                      prec.  The parser runs on the token source above;  *)
(*                      the scanner runs on text in ScanSpec.              *)
(*   indexmap, mu       the file table's map from name to index and its    *)
(*                      reader-writer lock (the writer, 0 for none, and    *)
(*                      the readers that hold it)                          *)
(*   calls              the call of insert or lookup each goroutine is in  *)
(*   returned           the calls of insert and lookup that have returned, *)
(*                      with their argument and result                     *)
(*   scopes             the Scopes: parent, elems, pos, end of each        *)
(*   symscope           the field scope of each Symbol (0 for nil)         *)
(*   alt                the result of the last call of Scope.Insert        *)
(*   inserts            the calls of Scope.Insert so far: scope and symbol *)
(*   contained          the last call of Scope.Contains: scope, argument   *)
(*                      and result                                         *)
(*   value              the constant Value that is the receiver of the     *)
(*                      calls of Unary, Binary and Convert                 *)
(*   result             the last of these calls: receiver, arguments and   *)
(*                      what it returned                                   *)
(*   ncalls             calls of Unary, Binary and Convert so far          *)
(*   callstack          the frames of a goroutine that uses the escape     *)
(*                      mechanism of package base: for each call whether   *)
(*                      it has deferred CatchBailout, and with a handler   *)
(*   panicking          the panic that is unwinding callstack, if any      *)
(*   events             the panics raised, the handlers called, the        *)
(*                      callers resumed and the crashes of this goroutine  *)
(*   PtrSize, Universe, Types                                              *)
(*                      the variables of universe.go; Universe holds the   *)
(*                      Scope it points to, or nothing when it is nil      *)
(*   symbols, typs      the Symbols and the Types allocated so far; a      *)
(*                      pointer to one is its number, 0 being nil          *)
(*   upc                the place that Init of package types has reached   *)
(*   srcbuf             the source of source.go at the level of bytes: its *)
(*                      buffer, its indices b, r and e, its pending I/O    *)
(*                      error, and the character ch of width chw at        *)
(*                      (line, col)                                        *)
(*   reader             the io.Reader behind it: the bytes it has yet to   *)
(*                      deliver and the error that follows them            *)
(*   rpc                the place the user of the source has reached       *)
(*                      inside next() and nextch(), the Read calls of the  *)
(*                      last fill(), the last segment and token, the error *)
(*                      nextch bailed out with, and where in the input the *)
(*                      active segment began                               *)
(*   delivered          the bytes the reader has delivered so far          *)
(***************************************************************************)
VARIABLES fname, p, pre, free, post, scanned, stack, ret, mode, payload,
          file, err, nerrors, spin, namelist, scanner,
          indexmap, mu, calls, returned,
          scopes, symscope, alt, inserts, contained,
          value, result, ncalls,
          callstack, panicking, events,
          PtrSize, Universe, Types, symbols, typs, upc,
          srcbuf, reader, rpc, delivered

pvars == <<fname, p, pre, free, post, scanned, stack, ret, mode, payload,
           file, err, nerrors, spin>>

\* the file table of package src, apart from namelist
tvars == <<indexmap, mu, calls, returned>>

\* the scopes and symbols of package types
svars == <<scopes, symscope, alt, inserts, contained>>

\* the constant values of package types
cvars == <<value, result, ncalls>>

\* the escape mechanism of package base
evars == <<callstack, panicking, events>>

\* parts of the program that are run on their own only
\* the universe of package types
uvars == <<PtrSize, Universe, Types, symbols, typs, upc>>

\* the source over an io.Reader
rvars == <<srcbuf, reader, rpc, delivered>>

xvars == <<evars, uvars, rvars>>

\* what neither the parser nor the scanner touches
others == <<tvars, svars, cvars, xvars>>

\* what the file table, and what the scopes, leave alone
nontable == <<pvars, scanner, svars, cvars, xvars>>
nonscope == <<pvars, namelist, scanner, tvars, cvars, xvars>>
noncalc == <<pvars, namelist, scanner, tvars, svars, xvars>>
nonescape == <<pvars, namelist, scanner, tvars, svars, cvars, uvars, rvars>>
nonuniverse == <<pvars, namelist, scanner, tvars, svars, cvars, evars, rvars>>
nonreader == <<pvars, namelist, scanner, tvars, svars, cvars, evars, uvars>>

vars == <<pvars, namelist, scanner, others>>

(***************************************************************************)
(* The scanner over source text (scanner.go, source.go).  A character is   *)
(* its code point, -1 at the end of the text; a text and a literal are     *)
(* sequences of code points.  The reader delivers the whole text and then  *)
(* io.EOF.  A function that bails out leaves the error in the field bail,  *)
(* and every later step of the unwinding call chain leaves the scanner     *)
(* alone.  Character literals and the length caps are outside the texts    *)
(* of the model.                                                           *)
(***************************************************************************)
Rune ==
    (" " :> 32) @@ ("\t" :> 9) @@ ("\n" :> 10) @@ ("\r" :> 13) @@
    ("!" :> 33) @@ ("%" :> 37) @@ ("&" :> 38) @@ ("(" :> 40) @@ (")" :> 41) @@
    ("*" :> 42) @@ ("+" :> 43) @@ ("," :> 44) @@ ("-" :> 45) @@ ("." :> 46) @@
    ("/" :> 47) @@ ("0" :> 48) @@ ("8" :> 56) @@ ("9" :> 57) @@ (":" :> 58) @@
    (";" :> 59) @@ ("<" :> 60) @@ ("=" :> 61) @@ (">" :> 62) @@ ("?" :> 63) @@
    ("F" :> 70) @@ ("[" :> 91) @@ ("]" :> 93) @@ ("^" :> 94) @@ ("_" :> 95) @@
    ("a" :> 97) @@ ("b" :> 98) @@ ("c" :> 99) @@ ("e" :> 101) @@ ("f" :> 102) @@
    ("n" :> 110) @@ ("o" :> 111) @@ ("p" :> 112) @@ ("r" :> 114) @@ ("s" :> 115) @@
    ("t" :> 116) @@ ("u" :> 117) @@ ("v" :> 118) @@ ("x" :> 120) @@ ("z" :> 122) @@ ("{" :> 123) @@ ("|" :> 124) @@ ("}" :> 125) @@
    ("~" :> 126)

\* the text spelled by a sequence of one-character strings
Str(cs) == [i \in 1..Len(cs) |-> Rune[cs[i]]]

\* ('a' - 'A') | ch
lower(ch) == IF (ch \div 32) % 2 = 1 THEN ch ELSE ch + 32

isLetter(ch) == (Rune["a"] <= lower(ch) /\ lower(ch) <= Rune["z"]) \/ ch = Rune["_"]

isDecimal(ch) == Rune["0"] <= ch /\ ch <= Rune["9"]

isHex(ch) == isDecimal(ch) \/ (Rune["a"] <= lower(ch) /\ lower(ch) <= Rune["f"])

\* a | b on the two bits of digsep
BitOr(a, b) ==
    (IF a % 2 = 1 \/ b % 2 = 1 THEN 1 ELSE 0)
    + (IF (a \div 2) % 2 = 1 \/ (b \div 2) % 2 = 1 THEN 2 ELSE 0)

keywordMap ==
    [lit \in {Str(<<"c", "o", "n", "s", "t">>)} |-> "_Const"] @@
    [lit \in {Str(<<"p", "r", "o", "c">>)} |-> "_Proc"] @@
    [lit \in {Str(<<"r", "e", "t", "u", "r", "n">>)} |-> "_Return"] @@
    [lit \in {Str(<<"v", "a", "r">>)} |-> "_Var"]

\* source.init and the zero values of the scanner's own fields
source(text) ==
    [buf |-> text, r |-> 0, b |-> -1, srcline |-> 0, srccol |-> 0,
     ch |-> Rune[" "], chw |-> 0,
     line |-> 0, col |-> 0, lit |-> <<>>, tok |-> "0", kind |-> "Int",
     op |-> "0", prec |-> 0, bail |-> Nil]

Ok(s) == IsNil(s.bail)

\* source.error: bail out with msg at source.pos()
error(s, msg) ==
    IF ~Ok(s) THEN s
    ELSE [s EXCEPT !.bail = [node |-> "bailout", line |-> 1 + s.srcline,
                             col |-> 1 + s.srccol, Msg |-> msg]]

\* scanner.errorAtf: bail out with msg at the token's start plus offset
errorAtf(s, offset, msg) ==
    IF ~Ok(s) THEN s
    ELSE [s EXCEPT !.bail = [node |-> "bailout", line |-> s.line,
                             col |-> s.col + offset, Msg |-> msg]]

\* source.nextch for a text of ASCII characters without NUL
nextch(s) ==
    IF ~Ok(s) THEN s
    ELSE LET t == IF s.ch = Rune["\n"]
                  THEN [s EXCEPT !.srcline = @ + 1, !.srccol = 0]
                  ELSE [s EXCEPT !.srccol = @ + s.chw]
         IN IF t.r < Len(t.buf)
            THEN [t EXCEPT !.ch = t.buf[t.r + 1], !.r = @ + 1, !.chw = 1]
            ELSE [t EXCEPT !.ch = -1, !.chw = 0]

\* source.segment
segment(s) == SubSeq(s.buf, s.b + 1, s.r - s.chw)

setLit(s, kind) ==
    IF ~Ok(s) THEN s
    ELSE [s EXCEPT !.tok = "_Literal", !.lit = segment(s), !.kind = kind]

baseName(b) ==
    CASE b = 2 -> "binary"
      [] b = 8 -> "octal"
      [] b = 10 -> "decimal"
      [] b = 16 -> "hexadecimal"

\* invalidSep: the loop over mantissa and exponent, d the previous digit class
RECURSIVE invalidSepLoop(_, _, _, _)
invalidSepLoop(x, x1, d, i) ==
    IF i >= Len(x)
    THEN IF d = Rune["_"] THEN Len(x) - 1 ELSE -1
    ELSE LET c == x[i + 1]
         IN IF c = Rune["_"]
            THEN IF d # Rune["0"] THEN i ELSE invalidSepLoop(x, x1, c, i + 1)
            ELSE IF isDecimal(c) \/ (x1 = Rune["x"] /\ isHex(c))
                 THEN invalidSepLoop(x, x1, Rune["0"], i + 1)
                 ELSE IF d = Rune["_"] THEN i - 1
                      ELSE invalidSepLoop(x, x1, Rune["."], i + 1)

\* invalidSep with the prefix not counting as a digit
invalidSep_PrefixNoDigit(x) ==
    LET x1 == IF Len(x) >= 2 /\ x[1] = Rune["0"] THEN lower(x[2]) ELSE Rune[" "]
        prefixed == x1 \in {Rune["x"], Rune["o"], Rune["b"]}
    IN invalidSepLoop(x, x1, Rune["."], IF prefixed THEN 2 ELSE 0)

\* invalidSep: the index of the first invalid separator in x, or -1
invalidSep(x) ==
    LET x1 == IF Len(x) >= 2 /\ x[1] = Rune["0"] THEN lower(x[2]) ELSE Rune[" "]
        prefixed == x1 \in {Rune["x"], Rune["o"], Rune["b"]}
    IN invalidSepLoop(x, x1, IF prefixed THEN Rune["0"] ELSE Rune["."],
                      IF prefixed THEN 2 ELSE 0)

\* scanner.digits: the scanner after the digits, digsep and *invalid
RECURSIVE digitsLoop(_, _, _, _)
digitsLoop(s, base, invalid, digsep) ==
    IF Ok(s) /\ (s.ch = Rune["_"]
                 \/ (IF base <= 10 THEN isDecimal(s.ch) ELSE isHex(s.ch)))
    THEN LET ds == IF s.ch = Rune["_"] THEN 2 ELSE 1
             inv == IF base <= 10 /\ s.ch # Rune["_"]
                       /\ s.ch >= Rune["0"] + base /\ invalid < 0
                    THEN (1 + s.srccol) - s.col
                    ELSE invalid
         IN digitsLoop(nextch(s), base, inv, BitOr(digsep, ds))
    ELSE [s |-> s, digsep |-> digsep, invalid |-> invalid]

digits(s, base, invalid) == digitsLoop(s, base, invalid, 0)

\* scanner.number keeps its locals in a record n beside the scanner n.s
Locals(s, base, prefix, digsep, seenPoint) ==
    [s |-> s, base |-> base, prefix |-> prefix, digsep |-> digsep, invalid |-> -1,
     seenPoint |-> seenPoint, kind |-> "Int"]

\* n after digsep |= s.digits(base, &invalid)
withDigits(n, d) ==
    [n EXCEPT !.s = d.s, !.digsep = BitOr(@, d.digsep), !.invalid = d.invalid]

\* number: the base prefix behind a leading 0
numberPrefix(s) ==
    CASE lower(s.ch) = Rune["x"] -> Locals(nextch(s), 16, Rune["x"], 0, FALSE)
      [] lower(s.ch) = Rune["o"] -> Locals(nextch(s), 8, Rune["o"], 0, FALSE)
      [] lower(s.ch) = Rune["b"] -> Locals(nextch(s), 2, Rune["b"], 0, FALSE)
      [] OTHER -> Locals(s, 8, Rune["0"], 1, FALSE)

\* number: the digits of the integer part
numberInteger(n) ==
    IF n.seenPoint THEN n ELSE withDigits(n, digits(n.s, n.base, n.invalid))

\* number: the decimal point behind the integer part
numberPoint(n) ==
    IF n.seenPoint \/ n.s.ch # Rune["."] THEN n
    ELSE [n EXCEPT !.seenPoint = TRUE,
                   !.s = nextch(IF n.prefix # 0
                                THEN error(@, "can only add decimal point to base-10 literals")
                                ELSE @)]

\* number: the fractional part
numberFraction(n) ==
    IF n.seenPoint
    THEN [withDigits(n, digits(n.s, n.base, n.invalid)) EXCEPT !.kind = "Float"]
    ELSE n

\* number: if digsep&1 == 0, the literal has no digits
numberNoDigits(n) ==
    IF n.digsep % 2 = 0
    THEN [n EXCEPT !.s = error(@, baseName(n.base) \o " literal has no digits")]
    ELSE n

\* number: the exponent, from the sign on
exponentDigits(n, d) ==
    [n EXCEPT !.digsep = BitOr(d.digsep, 2 * ((@ \div 2) % 2)),
              !.s = IF BitOr(d.digsep, 2 * ((n.digsep \div 2) % 2)) % 2 = 0
                    THEN error(d.s, "exponent has no digits")
                    ELSE d.s,
              !.kind = "Float"]

exponentSign(s) == IF s.ch = Rune["+"] \/ s.ch = Rune["-"] THEN nextch(s) ELSE s

numberExponent(n) ==
    IF lower(n.s.ch) # Rune["e"] THEN n
    ELSE exponentDigits(n, digits(exponentSign(nextch(
             IF n.prefix # 0
             THEN error(n.s, "'e' exponent requires decimal mantissa")
             ELSE n.s)), 10, n.invalid))

\* number: s.setLit(kind)
numberLit(n) == [n EXCEPT !.s = setLit(@, n.kind)]

\* number: the checks of the digits and of the separators
numberInvalid(n) ==
    IF n.kind = "Int" /\ n.invalid >= 0
    THEN errorAtf(n.s, n.invalid, "invalid digit in " \o baseName(n.base) \o " literal")
    ELSE n.s

numberSep(n, s) ==
    IF Ok(s) /\ (n.digsep \div 2) % 2 = 1 /\ invalidSep(s.lit) >= 0
    THEN errorAtf(s, invalidSep(s.lit), "'_' must separate successive digits")
    ELSE s

numberChecks(n) == numberSep(n, numberInvalid(n))

\* scanner.number
number(s, seenPoint) ==
    numberChecks(numberLit(numberExponent(numberNoDigits(numberFraction(
        numberPoint(numberInteger(
            IF seenPoint THEN Locals(s, 10, 0, 0, TRUE)
            ELSE IF s.ch = Rune["0"] THEN numberPrefix(nextch(s))
            ELSE Locals(s, 10, 0, 0, FALSE))))))))

\* scanner.name: the rest of a name or keyword
RECURSIVE nameLoop(_)
nameLoop(s) ==
    IF Ok(s) /\ (isLetter(s.ch) \/ isDecimal(s.ch)) THEN nameLoop(nextch(s)) ELSE s

\* name: possibly a keyword
nameToken(s, lit) ==
    IF Len(lit) >= 2 /\ lit \in DOMAIN keywordMap
    THEN [s EXCEPT !.tok = keywordMap[lit]]
    ELSE [s EXCEPT !.lit = lit, !.tok = "_Name"]

nameEnd(s) == nameToken(s, segment(s))

name(s) == nameEnd(nameLoop(s))

\* next: skip white space
RECURSIVE skipSpace(_)
skipSpace(s) ==
    IF Ok(s) /\ s.ch \in {Rune[" "], Rune["\t"], Rune["\n"], Rune["\r"]}
    THEN skipSpace(nextch(s))
    ELSE s

\* next: the label assignop
assignop(s) ==
    IF s.ch = Rune["="]
    THEN [nextch(s) EXCEPT !.tok = "_AssignOp"]
    ELSE [s EXCEPT !.tok = "_Operator"]

\* comment: the rest of the line
RECURSIVE skipLine(_)
skipLine(s) ==
    IF Ok(s) /\ s.ch >= 0 /\ s.ch # Rune["\n"] THEN skipLine(nextch(s)) ELSE s

\* comment: the loop counting the nesting level
RECURSIVE skipBlock(_, _)
skipBlock(s, lev) ==
    IF Ok(s) /\ s.ch >= 0 /\ lev > 0
    THEN LET t == nextch(s)
         IN IF s.ch = Rune["/"]
            THEN IF t.ch = Rune["*"] THEN skipBlock(nextch(t), lev + 1)
                 ELSE skipBlock(t, lev)
            ELSE IF s.ch = Rune["*"]
                 THEN IF t.ch = Rune["/"] THEN skipBlock(nextch(t), lev - 1)
                      ELSE skipBlock(t, lev)
                 ELSE skipBlock(t, lev)
    ELSE [s |-> s, lev |-> lev]

\* an operator token: s.op, s.prec = op, prec; s.tok = tok
Op(s, tok, op, prec) == [s EXCEPT !.tok = tok, !.op = op, !.prec = prec]

delimiters ==
    (Rune["("] :> "_Lparen") @@ (Rune["["] :> "_Lbrack") @@ (Rune["{"] :> "_Lbrace") @@
    (Rune[","] :> "_Comma") @@ (Rune[";"] :> "_Semi") @@ (Rune[")"] :> "_Rparen") @@
    (Rune["]"] :> "_Rbrack") @@ (Rune["}"] :> "_Rbrace") @@ (Rune[":"] :> "_Colon") @@
    (Rune["?"] :> "_Cond")

\* comment: the end of a block comment
blockEnd(c) ==
    IF c.lev > 0 THEN errorAtf(c.s, 0, "comment not terminated") ELSE c.s

\* comment: after ch := s.ch; s.next()
commentBody(ch, s) ==
    IF ch = Rune["/"] THEN skipLine(s) ELSE blockEnd(skipBlock(nextch(s), 1))

\* next: token start
tokenStart(s) ==
    [s EXCEPT !.line = 1 + s.srcline, !.col = 1 + s.srccol, !.b = s.r - s.chw]

RECURSIVE next(_), comment(_), token(_, _)

\* scanner.comment, called with s.ch the second character of the opener
comment(s) == commentBody(s.ch, next(s))

\* next: the switch on s.ch, with n the scanner after s.nextch()
token(s, n) ==
    IF isLetter(s.ch) THEN name(n)
    ELSE IF s.ch = -1 THEN [s EXCEPT !.tok = "_EOF"]
    ELSE IF isDecimal(s.ch) THEN number(s, FALSE)
    ELSE IF s.ch \in DOMAIN delimiters THEN [n EXCEPT !.tok = delimiters[s.ch]]
    ELSE CASE s.ch = Rune["."] ->
                 IF isDecimal(n.ch) THEN number(n, TRUE) ELSE [n EXCEPT !.tok = "_Dot"]
           [] s.ch = Rune["+"] ->
                 IF n.ch # Rune["+"]
                 THEN assignop(Op(n, n.tok, "Add", precAdd))
                 ELSE Op(nextch(n), "_Operator", "Inc", precAdd)
           [] s.ch = Rune["-"] ->
                 IF n.ch # Rune["-"]
                 THEN assignop(Op(n, n.tok, "Sub", precAdd))
                 ELSE Op(nextch(n), "_Operator", "Dec", precAdd)
           [] s.ch = Rune["*"] ->
                 IF n.ch = Rune["="]
                 THEN Op(nextch(n), "_AssignOp", "Mul", precMul)
                 ELSE Op(n, "_Star", "Mul", precMul)
           [] s.ch = Rune["/"] ->
                 IF n.ch = Rune["/"] \/ n.ch = Rune["*"]
                 THEN next(comment(n))
                 ELSE assignop(Op(n, n.tok, "Div", precMul))
           [] s.ch = Rune["%"] -> assignop(Op(n, n.tok, "Rem", precMul))
           [] s.ch = Rune["&"] ->
                 IF n.ch = Rune["&"]
                 THEN Op(nextch(n), "_Operator", "AndAnd", precAndAnd)
                 ELSE assignop(Op(n, n.tok, "And", precMul))
           [] s.ch = Rune["|"] ->
                 IF n.ch = Rune["|"]
                 THEN Op(nextch(n), "_Operator", "OrOr", precOrOr)
                 ELSE assignop(Op(n, n.tok, "Or", precAdd))
           [] s.ch = Rune["^"] -> assignop(Op(n, n.tok, "Xor", precAdd))
           [] s.ch = Rune["<"] ->
                 IF n.ch = Rune["="] THEN Op(nextch(n), "_Operator", "Leq", precCmp)
                 ELSE IF n.ch = Rune["<"]
                      THEN assignop(Op(nextch(n), n.tok, "Shl", precMul))
                      ELSE Op(n, "_Operator", "Lss", precCmp)
           [] s.ch = Rune[">"] ->
                 IF n.ch = Rune["="] THEN Op(nextch(n), "_Operator", "Geq", precCmp)
                 ELSE IF n.ch = Rune[">"]
                      THEN assignop(Op(nextch(n), n.tok, "Shr", precMul))
                      ELSE Op(n, "_Operator", "Gtr", precCmp)
           [] s.ch = Rune["="] ->
                 IF n.ch = Rune["="] THEN Op(nextch(n), "_Operator", "Eql", precCmp)
                 ELSE Op(n, "_Assign", "0", n.prec)
           [] s.ch = Rune["!"] ->
                 IF n.ch = Rune["="] THEN Op(nextch(n), "_Operator", "Neq", precCmp)
                 ELSE Op(n, "_Operator", "LNot", 0)
           [] s.ch = Rune["~"] -> Op(n, "_Operator", "Not", 0)
           [] OTHER -> error(s, "invalid character")

\* next: the token that starts at s.ch
scanToken(s) == token(s, nextch(s))

\* scanner.next
next(s) ==
    IF ~Ok(s) THEN s
    ELSE scanToken(tokenStart(skipSpace([s EXCEPT !.b = -1])))

\* the token the parser reads off the scanner: the fields valid for its tok
Token(s) ==
    [tok |-> s.tok,
     lit |-> IF s.tok \in {"_Name", "_Literal"} THEN s.lit ELSE <<>>,
     kind |-> IF s.tok = "_Literal" THEN s.kind ELSE "",
     op |-> IF s.tok \in {"_Operator", "_AssignOp", "_Star"} THEN s.op ELSE "0",
     prec |-> IF s.tok \in {"_Operator", "_AssignOp", "_Star"} THEN s.prec ELSE 0]

(***************************************************************************)
(* The token source: what the next call of scanner.next() may deliver.     *)
(***************************************************************************)
Names == {"a"}

\* the tokens chosen freely
Alphabet ==
    { NameTok(n) : n \in Names } \cup
    { LitTok("1", "Int"), StarTok, Tk("_Assign"),
      OpTok("Add", precAdd), OpTok("Inc", precAdd), OpTok("Eql", precCmp),
      OpTok("LNot", 0), AssignOpTok("Add", precAdd),
      Tk("_Lparen"), Tk("_Rparen"), Tk("_Lbrack"), Tk("_Rbrack"),
      Tk("_Lbrace"), Tk("_Rbrace"), Tk("_Comma"), Tk("_Semi"), Tk("_Colon"),
      Tk("_Dot"), Tk("_Cond"),
      Tk("_Const"), Tk("_Proc"), Tk("_Return"), Tk("_Var"),
      ScanErrorTok }

FeedOptions ==
    IF pre # <<>>
    THEN { [t |-> Head(pre), pre |-> Tail(pre), free |-> free, post |-> post] }
    ELSE (IF free > 0
          THEN { [t |-> a, pre |-> <<>>, free |-> free - 1, post |-> post] : a \in Alphabet }
          ELSE {})
         \cup
         { IF post # <<>>
           THEN [t |-> Head(post), pre |-> <<>>, free |-> 0, post |-> Tail(post)]
           ELSE [t |-> EOFTok, pre |-> <<>>, free |-> 0, post |-> <<>>] }

(***************************************************************************)
(* The call stack.  A frame is [fn, pc, l]: the function, the place in it  *)
(* where it continues, and its locals.                                      *)
(***************************************************************************)
top == stack[Len(stack)]

Pop == SubSeq(stack, 1, Len(stack) - 1)

Frame(fn, l) == [fn |-> fn, pc |-> 0, l |-> l]

NoLocals == [none |-> TRUE]

\* the stack with the running function continuing at pc with locals l
Goto(pc, l) == Append(Pop, [fn |-> top.fn, pc |-> pc, l |-> l])

\* ... and calling callee first
Call(pc, l, callee) == Append(Goto(pc, l), callee)

At(fn, pc) == mode = "run" /\ stack # <<>> /\ top.fn = fn /\ top.pc = pc

\* scanner.at: the position (line, col) of the file being parsed
at(line, col) == MakePos(namelist, fname, line, col)

\* parser.pos: the position of the current token
pos == at(p.line, p.col)

(***************************************************************************)
(* The three ways a step of the parser ends.                               *)
(***************************************************************************)
\* no token is consumed
Step(stk, r) ==
    /\ stack' = stk
    /\ ret' = r
    /\ UNCHANGED <<others, scanner, fname, p, pre, free, post, scanned, mode, payload, file, err,
                   nerrors, spin, namelist>>

Return(v) == Step(Pop, v)

\* base.Bailout: panic with the payload wrapped in the bail-out marker
Bailout(e) ==
    /\ mode' = "panic"
    /\ payload' = e
    /\ nerrors' = Min(nerrors + 1, 2)
    /\ UNCHANGED <<others, scanner, fname, p, pre, free, post, scanned, stack, ret, file, err, spin>>

\* errorAt: report msg at the position where and bail out
errorAt(where, msg) ==
    /\ Bailout(Error(where, msg))
    /\ namelist' = insertTable(namelist, fname)

\* parser.error: report msg at the current token and bail out
Fail(msg) == errorAt(pos, msg)

\* scanner.next: the next token becomes the current one, or the scan fails
Shift(stk, r) ==
    \E o \in FeedOptions :
        IF o.t = ScanErrorTok
        THEN errorAt(at(1, Len(scanned) + 1), "invalid character")
        ELSE /\ p' = [tok |-> o.t.tok, lit |-> o.t.lit, kind |-> o.t.kind,
                      op |-> o.t.op, prec |-> o.t.prec,
                      line |-> 1, col |-> Len(scanned) + 1]
             /\ scanned' = Append(scanned, o.t)
             /\ pre' = o.pre
             /\ free' = o.free
             /\ post' = o.post
             /\ stack' = stk
             /\ ret' = r
             /\ spin' = 0
             /\ UNCHANGED <<others, scanner, fname, mode, payload, file, err, nerrors, namelist>>

\* parser.want(tok), then continue
Want(tok, stk, r) ==
    IF p.tok # tok THEN Fail("expected " \o tok) ELSE Shift(stk, r)

\* parser.semi(), then continue
Semi(stk, r) ==
    IF p.tok # "_Semi" THEN Fail("expected semicolon") ELSE Shift(stk, r)

(***************************************************************************)
(* Parse (syntax.go) and the escape mechanism (base/bailout.go).           *)
(***************************************************************************)
\* Parse: p.init(rd, name), then the call of p.file()
Parse_call ==
    /\ At("Parse", 0)
    /\ Step(Call(1, NoLocals, Frame("file", NoLocals)), Nil)

\* Parse: return p.file(), nil
Parse_return ==
    /\ At("Parse", 1)
    /\ file' = ret
    /\ err' = Nil
    /\ mode' = "returned"
    /\ stack' = <<>>
    /\ ret' = Nil
    /\ UNCHANGED <<others, scanner, fname, p, pre, free, post, scanned, payload, nerrors, spin, namelist>>

\* CatchBailout with a handler that drops the payload
CatchBailout_DropsPayload ==
    /\ mode = "panic"
    /\ file' = Nil
    /\ err' = Nil
    /\ mode' = "returned"
    /\ stack' = <<>>
    /\ ret' = Nil
    /\ UNCHANGED <<others, scanner, fname, p, pre, free, post, scanned, payload, nerrors, spin, namelist>>

\* the deferred CatchBailout of Parse: the bail-out unwinds to it from any
\* depth and its handler sets file, err = nil, payload.(error)
CatchBailout ==
    /\ mode = "panic"
    /\ file' = Nil
    /\ err' = payload
    /\ mode' = "returned"
    /\ stack' = <<>>
    /\ ret' = Nil
    /\ UNCHANGED <<others, scanner, fname, p, pre, free, post, scanned, payload, nerrors, spin, namelist>>

(***************************************************************************)
(* Source file and declarations.                                           *)
(***************************************************************************)
\* file: p.next()
file_next ==
    /\ At("file", 0)
    /\ Shift(Goto(1, NoLocals), Nil)

\* file: f := new(File); f.pos = p.pos()
file_new ==
    /\ At("file", 1)
    /\ stack' = Goto(2, [f |-> [node |-> "File", DeclList |-> <<>>, EOF |-> NoPos, pos |-> pos]])
    /\ ret' = Nil
    /\ namelist' = insertTable(namelist, fname)
    /\ UNCHANGED <<others, scanner, fname, p, pre, free, post, scanned, mode, payload, file, err,
                   nerrors, spin>>

\* file: for p.tok != _EOF { ... p.decl(true) }; f.EOF = p.pos(); return f
file_loop ==
    /\ At("file", 2)
    /\ IF p.tok # "_EOF"
       THEN Step(Call(3, top.l, Frame("decl", NoLocals)), Nil)
       ELSE Return([top.l.f EXCEPT !.EOF = pos])

\* file: f.DeclList = append(f.DeclList, <result of decl>)
file_append ==
    /\ At("file", 3)
    /\ Step(Goto(2, [f |-> [top.l.f EXCEPT !.DeclList = Append(@, ret)]]), Nil)

decl_switch ==
    /\ At("decl", 0)
    /\ IF p.tok = "_Const"
       THEN Step(Call(1, NoLocals, Frame("constDecl", NoLocals)), Nil)
       ELSE IF p.tok = "_Var"
            THEN Step(Call(1, NoLocals, Frame("varDecl", NoLocals)), Nil)
            ELSE Fail("expected a declaration")

decl_return ==
    /\ At("decl", 1)
    /\ Return(ret)

\* constDecl: d.pos = p.want(_Const); p.nameList()
constDecl_want ==
    /\ At("constDecl", 0)
    /\ Want("_Const",
            Call(1, [d |-> [node |-> "ConstDecl", NameList |-> <<>>, Type |-> Nil,
                            Values |-> Nil, pos |-> pos]],
                 Frame("nameList", NoLocals)), Nil)

\* constDecl: d.NameList = ...; p.annotationOrNil()
constDecl_names ==
    /\ At("constDecl", 1)
    /\ Step(Call(2, [d |-> [top.l.d EXCEPT !.NameList = ret.list]],
                 Frame("annotationOrNil", NoLocals)), Nil)

\* constDecl: d.Type = ...; p.initialization(_Const)
constDecl_type ==
    /\ At("constDecl", 2)
    /\ Step(Call(3, [d |-> [top.l.d EXCEPT !.Type = ret]],
                 Frame("initialization", [tok |-> "_Const"])), Nil)

\* constDecl: d.Values = ...; p.semi(); return d
constDecl_values ==
    /\ At("constDecl", 3)
    /\ Semi(Pop, [top.l.d EXCEPT !.Values = ret])

\* varDecl: d.pos = p.want(_Var); p.nameList()
varDecl_want ==
    /\ At("varDecl", 0)
    /\ Want("_Var",
            Call(1, [d |-> [node |-> "VarDecl", NameList |-> <<>>, Type |-> Nil,
                            Values |-> Nil, pos |-> pos]],
                 Frame("nameList", NoLocals)), Nil)

varDecl_names ==
    /\ At("varDecl", 1)
    /\ Step(Call(2, [d |-> [top.l.d EXCEPT !.NameList = ret.list]],
                 Frame("annotationOrNil", NoLocals)), Nil)

\* varDecl with the initialization optional also without a type annotation
varDecl_type_OptionalInit ==
    /\ At("varDecl", 2)
    /\ LET d == [top.l.d EXCEPT !.Type = ret]
       IN IF p.tok = "_Assign"
          THEN Shift(Call(3, [d |-> d], Frame("exprList", NoLocals)), Nil)
          ELSE Semi(Pop, d)

\* varDecl: d.Type = ...; the initialization, required without a type
\* annotation and optional with one; without one, p.semi() and return d
varDecl_type ==
    /\ At("varDecl", 2)
    /\ LET d == [top.l.d EXCEPT !.Type = ret]
       IN IF IsNil(d.Type)
          THEN Step(Call(3, [d |-> d], Frame("initialization", [tok |-> "_Var"])), Nil)
          ELSE IF p.tok = "_Assign"
               THEN Shift(Call(3, [d |-> d], Frame("exprList", NoLocals)), Nil)
               ELSE Semi(Pop, d)

\* varDecl: d.Values = ...; p.semi(); return d
varDecl_values ==
    /\ At("varDecl", 3)
    /\ Semi(Pop, [top.l.d EXCEPT !.Values = ret])

\* initialization: the "=" or an error, then p.exprList()
initialization_assign ==
    /\ At("initialization", 0)
    /\ IF p.tok # "_Assign"
       THEN Fail(IF top.l.tok = "_Var"
                 THEN "expected an initialization or type annotation"
                 ELSE "expected an initialization")
       ELSE Shift(Call(1, top.l, Frame("exprList", NoLocals)), Nil)

initialization_return ==
    /\ At("initialization", 1)
    /\ Return(ret)

\* annotationOrNil: if p.got(_Colon) { return p.type_() }; return nil
annotationOrNil_colon ==
    /\ At("annotationOrNil", 0)
    /\ IF p.tok = "_Colon"
       THEN Shift(Call(1, NoLocals, Frame("type_", NoLocals)), Nil)
       ELSE Return(Nil)

annotationOrNil_return ==
    /\ At("annotationOrNil", 1)
    /\ Return(ret)

(***************************************************************************)
(* Statements.                                                             *)
(***************************************************************************)
\* stmt: skip semicolons one at a time, then dispatch on the token
stmt_switch ==
    /\ At("stmt", 0)
    /\ IF p.tok = "_Semi"
       THEN Shift(stack, Nil)
       ELSE IF p.tok = "_Name"
            THEN Step(Call(1, NoLocals, Frame("simpleStmt", NoLocals)), Nil)
            ELSE IF p.tok \in {"_Const", "_Var"}
                 THEN Step(Call(1, NoLocals, Frame("declStmt", NoLocals)), Nil)
                 ELSE IF p.tok = "_Lbrace"
                      THEN Step(Call(1, NoLocals, Frame("blockStmt", NoLocals)), Nil)
                      ELSE IF p.tok = "_Return"
                           THEN Step(Call(1, NoLocals, Frame("returnStmt", NoLocals)), Nil)
                           ELSE Step(Call(1, NoLocals, Frame("simpleStmt", NoLocals)), Nil)

stmt_return ==
    /\ At("stmt", 1)
    /\ Return(ret)

\* simpleStmt: lhs := p.exprList()
simpleStmt_lhs ==
    /\ At("simpleStmt", 0)
    /\ Step(Call(1, NoLocals, Frame("exprList", NoLocals)), Nil)

\* simpleStmt: the token after the left-hand side decides
simpleStmt_switch ==
    /\ At("simpleStmt", 1)
    /\ LET lhs == ret
       IN IF lhs.node = "ListExpr" /\ p.tok = "_Assign"
          THEN Shift(Call(2, [lhs |-> lhs, op |-> "0"], Frame("exprList", NoLocals)), Nil)
          ELSE IF lhs.node = "ListExpr"
               THEN Fail("expected \"=\" or comma")
               ELSE IF p.tok = "_AssignOp"
                    THEN Shift(Call(2, [lhs |-> lhs, op |-> p.op], Frame("expr", NoLocals)), Nil)
                    ELSE IF p.tok = "_Assign"
                         THEN Shift(Call(2, [lhs |-> lhs, op |-> "0"], Frame("expr", NoLocals)), Nil)
                         ELSE Semi(Pop, [node |-> "ExprStmt", X |-> lhs, pos |-> lhs.pos])

\* assign: p.semi(); return the AssignStmt
assign(lhs, op, rhs) ==
    Semi(Pop, [node |-> "AssignStmt", Lhs |-> lhs, Op |-> op, Rhs |-> rhs, pos |-> lhs.pos])

\* simpleStmt: return p.assign(lhs, op, <the right-hand side>)
simpleStmt_assign ==
    /\ At("simpleStmt", 2)
    /\ assign(top.l.lhs, top.l.op, ret)

\* declStmt: s.pos = p.pos(); s.D = p.decl(false)
declStmt_decl ==
    /\ At("declStmt", 0)
    /\ Step(Call(1, [s |-> [node |-> "DeclStmt", D |-> Nil, pos |-> pos]],
                 Frame("decl", NoLocals)), Nil)

declStmt_return ==
    /\ At("declStmt", 1)
    /\ Return([top.l.s EXCEPT !.D = ret])

\* blockStmt: s.pos = p.want(_Lbrace)
blockStmt_want ==
    /\ At("blockStmt", 0)
    /\ Want("_Lbrace",
            Goto(1, [s |-> [node |-> "BlockStmt", StmtList |-> <<>>, Closing |-> NoPos,
                            pos |-> pos]]), Nil)

\* blockStmt: the statements up to "}" or EOF; p.want(_Rbrace); return s
blockStmt_loop ==
    /\ At("blockStmt", 1)
    /\ IF p.tok # "_EOF" /\ p.tok # "_Rbrace"
       THEN Step(Call(2, top.l, Frame("stmt", NoLocals)), Nil)
       ELSE Want("_Rbrace", Pop, top.l.s)

blockStmt_append ==
    /\ At("blockStmt", 2)
    /\ Step(Goto(1, [s |-> [top.l.s EXCEPT !.StmtList = Append(@, ret)]]), Nil)

\* returnStmt: s.pos = p.want(_Return)
returnStmt_want ==
    /\ At("returnStmt", 0)
    /\ Want("_Return", Goto(1, [s |-> [node |-> "ReturnStmt", Result |-> Nil, pos |-> pos]]), Nil)

\* returnStmt: the result unless a semicolon follows; then p.semi()
returnStmt_result ==
    /\ At("returnStmt", 1)
    /\ IF p.tok # "_Semi"
       THEN Step(Call(2, top.l, Frame("expr", NoLocals)), Nil)
       ELSE Semi(Pop, top.l.s)

returnStmt_semi ==
    /\ At("returnStmt", 2)
    /\ Semi(Pop, [top.l.s EXCEPT !.Result = ret])

(***************************************************************************)
(* Expressions.                                                            *)
(***************************************************************************)
\* expr: x := p.binaryExpr(nil, 0)
expr_binary ==
    /\ At("expr", 0)
    /\ Step(Call(1, NoLocals, Frame("binaryExpr", [x |-> Nil, prec |-> 0])), Nil)

\* expr: if p.got(_Cond), the ternary with t.A = p.expr(); else return x
expr_cond ==
    /\ At("expr", 1)
    /\ IF p.tok = "_Cond"
       THEN Shift(Call(2, [t |-> [node |-> "TernaryExpr", Cond |-> ret, A |-> Nil,
                                  B |-> Nil, pos |-> ret.pos]],
                       Frame("expr", NoLocals)), Nil)
       ELSE Return(ret)

\* expr: t.A = ...; p.want(_Colon); t.B = p.expr()
expr_colon ==
    /\ At("expr", 2)
    /\ Want("_Colon", Call(3, [t |-> [top.l.t EXCEPT !.A = ret]], Frame("expr", NoLocals)), Nil)

expr_return ==
    /\ At("expr", 3)
    /\ Return([top.l.t EXCEPT !.B = ret])

\* exprList: x := p.expr()
exprList_first ==
    /\ At("exprList", 0)
    /\ Step(Call(1, NoLocals, Frame("expr", NoLocals)), Nil)

\* exprList: if p.got(_Comma), the list starts with x and the next p.expr()
exprList_comma ==
    /\ At("exprList", 1)
    /\ IF p.tok = "_Comma"
       THEN Shift(Call(2, [list |-> <<ret>>], Frame("expr", NoLocals)), Nil)
       ELSE Return(ret)

\* exprList: for p.got(_Comma) { append }; return the ListExpr at x.Pos()
exprList_more ==
    /\ At("exprList", 2)
    /\ LET list == Append(top.l.list, ret)
       IN IF p.tok = "_Comma"
          THEN Shift(Call(2, [list |-> list], Frame("expr", NoLocals)), Nil)
          ELSE Return([node |-> "ListExpr", List |-> list, pos |-> list[1].pos])

\* binaryExpr: the loop while a binary operator binds tighter than prec
binaryLoop(x, prec) ==
    IF p.tok \in {"_Operator", "_Star"} /\ p.prec > prec
    THEN Shift(Call(2, [x |-> x, prec |-> prec,
                        t |-> [node |-> "Operation", Op |-> p.op, Lhs |-> x, Rhs |-> Nil,
                               pos |-> pos]],
                    Frame("binaryExpr", [x |-> Nil, prec |-> p.prec])), Nil)
    ELSE Return(x)

\* binaryExpr: if x == nil { x = p.unaryExpr() }
binaryExpr_unary ==
    /\ At("binaryExpr", 0)
    /\ IF IsNil(top.l.x)
       THEN Step(Call(1, top.l, Frame("unaryExpr", NoLocals)), Nil)
       ELSE binaryLoop(top.l.x, top.l.prec)

\* binaryExpr: x is the operand; enter the loop
binaryExpr_operand ==
    /\ At("binaryExpr", 1)
    /\ binaryLoop(ret, top.l.prec)

\* binaryExpr: t.Rhs = <the right operand>; x = t; the loop again
binaryExpr_rhs ==
    /\ At("binaryExpr", 2)
    /\ binaryLoop([top.l.t EXCEPT !.Rhs = ret], top.l.prec)

\* unaryExpr: a prefix operator or a primary expression
unaryExpr_switch ==
    /\ At("unaryExpr", 0)
    /\ IF p.tok = "_Operator"
       THEN Step(Call(1, NoLocals, Frame("prefixUnary", NoLocals)), Nil)
       ELSE Step(Call(1, NoLocals, Frame("primaryExpr", NoLocals)), Nil)

\* unaryExpr: x = p.postfixUnary(x)
unaryExpr_postfix ==
    /\ At("unaryExpr", 1)
    /\ Step(Call(2, NoLocals, Frame("postfixUnary", [x |-> ret])), Nil)

unaryExpr_return ==
    /\ At("unaryExpr", 2)
    /\ Return(ret)

\* prefixUnary: one of the prefix operators, then its operand
prefixUnary_switch ==
    /\ At("prefixUnary", 0)
    /\ IF p.op \in {"Add", "Sub", "And", "Not", "LNot", "Inc", "Dec"}
       THEN Shift(Call(1, [x |-> [node |-> "Operation", Op |-> p.op, Lhs |-> Nil,
                                  Rhs |-> Nil, pos |-> pos]],
                       Frame("unaryExpr", NoLocals)), Nil)
       ELSE Fail("expected a unary expression")

prefixUnary_return ==
    /\ At("prefixUnary", 1)
    /\ Return([top.l.x EXCEPT !.Rhs = ret])

\* postfixUnary: one iteration of for p.tok == _Operator { switch p.op {
\* case Inc, Dec, Deref: ... } }, or the return after the loop.  The switch
\* has no default: with any other operator the iteration changes nothing.
postfixUnary_loop ==
    /\ At("postfixUnary", 0)
    /\ IF p.tok = "_Operator"
       THEN IF p.op \in {"Inc", "Dec", "Deref"}
            THEN Shift(Goto(0, [x |-> [node |-> "Operation", Op |-> p.op, Lhs |-> top.l.x,
                                       Rhs |-> Nil, pos |-> pos]]), Nil)
            ELSE /\ spin' = (spin + 1) % (MaxSpin + 1)
                 /\ UNCHANGED <<others, scanner, fname, p, pre, free, post, scanned, stack, ret, mode,
                                payload, file, err, nerrors, namelist>>
       ELSE Return(top.l.x)

\* primaryExpr: x := p.atomExpr()
primaryExpr_atom ==
    /\ At("primaryExpr", 0)
    /\ Step(Call(1, NoLocals, Frame("atomExpr", NoLocals)), Nil)

\* primaryExpr: the loop over calls and indexes
primaryExpr_loop ==
    /\ At("primaryExpr", 1)
    /\ IF p.tok = "_Lparen"
       THEN Step(Call(1, NoLocals, Frame("callExpr", [x |-> ret])), Nil)
       ELSE IF p.tok = "_Lbrack"
            THEN Step(Call(1, NoLocals, Frame("indexExpr", [x |-> ret])), Nil)
            ELSE Return(ret)

atomExpr_call ==
    /\ At("atomExpr", 0)
    /\ Step(Call(1, NoLocals, Frame("atomExprOrNil", NoLocals)), Nil)

\* atomExpr: if x == nil { p.error("expected an expression") }
atomExpr_check ==
    /\ At("atomExpr", 1)
    /\ IF IsNil(ret) THEN Fail("expected an expression") ELSE Return(ret)

atomExprOrNil_switch ==
    /\ At("atomExprOrNil", 0)
    /\ IF p.tok = "_Name"
       THEN Step(Call(9, NoLocals, Frame("name", NoLocals)), Nil)
       ELSE IF p.tok = "_Literal"
            THEN Shift(Pop, [node |-> "LiteralExpr", Value |-> p.lit, Kind |-> p.kind,
                             pos |-> pos])
            ELSE IF p.tok = "_Lparen"
                 THEN Shift(Call(1, [pos |-> pos], Frame("expr", NoLocals)), Nil)
                 ELSE IF p.tok = "_Proc"
                      THEN Step(Call(3, NoLocals, Frame("procType", NoLocals)), Nil)
                      ELSE Step(Call(9, NoLocals, Frame("typeOrNil", NoLocals)), Nil)

\* atomExprOrNil, case _Lparen: p.want(_Rparen); t := p.atomExprOrNil()
atomExprOrNil_rparen ==
    /\ At("atomExprOrNil", 1)
    /\ Want("_Rparen", Call(2, [pos |-> top.l.pos, x |-> ret],
                            Frame("atomExprOrNil", NoLocals)), Nil)

\* atomExprOrNil, case _Lparen: an atom after ")" makes x the type of a cast
atomExprOrNil_cast ==
    /\ At("atomExprOrNil", 2)
    /\ IF ~IsNil(ret)
       THEN Return([node |-> "CastExpr", Type |-> top.l.x, X |-> ret, pos |-> top.l.pos])
       ELSE Return(top.l.x)

\* atomExprOrNil, case _Proc: a "{" after the type starts the body
atomExprOrNil_proc ==
    /\ At("atomExprOrNil", 3)
    /\ IF p.tok = "_Lbrace"
       THEN Step(Call(4, [typ |-> ret], Frame("blockStmt", NoLocals)), Nil)
       ELSE Return(ret)

atomExprOrNil_body ==
    /\ At("atomExprOrNil", 4)
    /\ Return([node |-> "ProcExpr", Type |-> top.l.typ, Body |-> ret, pos |-> top.l.typ.pos])

atomExprOrNil_return ==
    /\ At("atomExprOrNil", 9)
    /\ Return(ret)

\* callExpr: t.pos = p.pos(); t.Proc = x; p.want(_Lparen)
callExpr_want ==
    /\ At("callExpr", 0)
    /\ Want("_Lparen", Goto(1, [t |-> [node |-> "CallExpr", Proc |-> top.l.x,
                                       ArgList |-> <<>>, pos |-> pos]]), Nil)

\* callExpr: if p.got(_Rparen) { return t }; the first argument
callExpr_first ==
    /\ At("callExpr", 1)
    /\ IF p.tok = "_Rparen"
       THEN Shift(Pop, top.l.t)
       ELSE Step(Call(2, [t |-> top.l.t, list |-> <<>>], Frame("expr", NoLocals)), Nil)

\* callExpr: for p.got(_Comma) { append }; p.want(_Rparen); return t
callExpr_more ==
    /\ At("callExpr", 2)
    /\ LET list == Append(top.l.list, ret)
       IN IF p.tok = "_Comma"
          THEN Shift(Call(2, [t |-> top.l.t, list |-> list], Frame("expr", NoLocals)), Nil)
          ELSE Want("_Rparen", Pop, [top.l.t EXCEPT !.ArgList = list])

\* indexExpr: t.pos = p.pos(); t.X = x; p.want(_Lbrack); t.Index = p.expr()
indexExpr_want ==
    /\ At("indexExpr", 0)
    /\ Want("_Lbrack", Call(1, [t |-> [node |-> "IndexExpr", X |-> top.l.x, Index |-> Nil,
                                       pos |-> pos]],
                            Frame("expr", NoLocals)), Nil)

indexExpr_rbrack ==
    /\ At("indexExpr", 1)
    /\ Want("_Rbrack", Pop, [top.l.t EXCEPT !.Index = ret])

\* name: a Name node of the current token, or "expected a name"
name_ ==
    /\ At("name", 0)
    /\ IF p.tok # "_Name"
       THEN Fail("expected a name")
       ELSE Shift(Pop, [node |-> "Name", Value |-> p.lit, pos |-> pos])

nameList_first ==
    /\ At("nameList", 0)
    /\ Step(Call(1, [list |-> <<>>], Frame("name", NoLocals)), Nil)

\* nameList: for p.got(_Comma) { list = append(list, p.name()) }
nameList_more ==
    /\ At("nameList", 1)
    /\ LET list == Append(top.l.list, ret)
       IN IF p.tok = "_Comma"
          THEN Shift(Call(1, [list |-> list], Frame("name", NoLocals)), Nil)
          ELSE Return(Slice(list))

(***************************************************************************)
(* Types.                                                                  *)
(***************************************************************************)
type__call ==
    /\ At("type_", 0)
    /\ Step(Call(1, NoLocals, Frame("typeOrNil", NoLocals)), Nil)

\* type_: if typ == nil { p.error("expected a type") }
type__check ==
    /\ At("type_", 1)
    /\ IF IsNil(ret) THEN Fail("expected a type") ELSE Return(ret)

typeOrNil_switch ==
    /\ At("typeOrNil", 0)
    /\ IF p.tok = "_Name"
       THEN Step(Call(9, NoLocals, Frame("name", NoLocals)), Nil)
       ELSE IF p.tok = "_Star"
            THEN Shift(Goto(1, [x |-> [node |-> "PointerType", Const |-> FALSE, Elem |-> Nil,
                                       pos |-> pos]]), Nil)
            ELSE IF p.tok = "_Cond"
                 THEN Shift(Call(3, [x |-> [node |-> "OptionType", Elem |-> Nil, pos |-> pos]],
                                 Frame("type_", NoLocals)), Nil)
                 ELSE IF p.tok = "_Lbrack"
                      THEN Shift(Call(4, [x |-> [node |-> "ArrayType", Len |-> Nil,
                                                 Elem |-> Nil, pos |-> pos]],
                                      Frame("expr", NoLocals)), Nil)
                      ELSE IF p.tok = "_Proc"
                           THEN Step(Call(9, NoLocals, Frame("procType", NoLocals)), Nil)
                           ELSE Return(Nil)

\* typeOrNil, case _Star: x.Const = p.got(_Const); x.Elem = p.type_()
typeOrNil_const ==
    /\ At("typeOrNil", 1)
    /\ IF p.tok = "_Const"
       THEN Shift(Call(2, [x |-> [top.l.x EXCEPT !.Const = TRUE]], Frame("type_", NoLocals)), Nil)
       ELSE Step(Call(2, top.l, Frame("type_", NoLocals)), Nil)

typeOrNil_pointer ==
    /\ At("typeOrNil", 2)
    /\ Return([top.l.x EXCEPT !.Elem = ret])

typeOrNil_option ==
    /\ At("typeOrNil", 3)
    /\ Return([top.l.x EXCEPT !.Elem = ret])

\* typeOrNil, case _Lbrack: x.Len = ...; p.want(_Rbrack); x.Elem = p.type_()
typeOrNil_rbrack ==
    /\ At("typeOrNil", 4)
    /\ Want("_Rbrack", Call(5, [x |-> [top.l.x EXCEPT !.Len = ret]], Frame("type_", NoLocals)), Nil)

typeOrNil_array ==
    /\ At("typeOrNil", 5)
    /\ Return([top.l.x EXCEPT !.Elem = ret])

typeOrNil_return ==
    /\ At("typeOrNil", 9)
    /\ Return(ret)

\* procType: typ.pos = p.want(_Proc); typ.ParamList = p.paramList()
procType_want ==
    /\ At("procType", 0)
    /\ Want("_Proc", Call(1, [typ |-> [node |-> "ProcType", ParamList |-> <<>>,
                                       Result |-> Nil, pos |-> pos]],
                          Frame("paramList", NoLocals)), Nil)

procType_params ==
    /\ At("procType", 1)
    /\ Step(Call(2, [typ |-> [top.l.typ EXCEPT !.ParamList = ret.list]],
                 Frame("typeOrNil", NoLocals)), Nil)

procType_result ==
    /\ At("procType", 2)
    /\ Return([top.l.typ EXCEPT !.Result = ret])

\* paramList: pos := p.want(_Lparen)
paramList_want ==
    /\ At("paramList", 0)
    /\ Want("_Lparen", Goto(1, [pos |-> pos, list |-> <<>>, named |-> FALSE,
                                unnamed |-> FALSE]), Nil)

\* paramList: if p.got(_Rparen) { return nil }
paramList_empty ==
    /\ At("paramList", 1)
    /\ IF p.tok = "_Rparen"
       THEN Shift(Pop, Slice(<<>>))
       ELSE Step(Goto(2, top.l), Nil)

\* paramList: for p.tok != _EOF && p.tok != _Rparen { p.field() ... };
\* p.want(_Rparen)
paramList_loop ==
    /\ At("paramList", 2)
    /\ IF p.tok # "_EOF" /\ p.tok # "_Rparen"
       THEN Step(Call(3, top.l, Frame("field", NoLocals)), Nil)
       ELSE Want("_Rparen", Goto(4, top.l), Nil)

\* paramList: the field joins the list and sets named or unnamed; a comma
\* or ")" must follow
paramList_field ==
    /\ At("paramList", 3)
    /\ LET l == [top.l EXCEPT !.list = Append(@, ret.f),
                              !.named = @ \/ ret.named,
                              !.unnamed = @ \/ ~ret.named]
       IN IF p.tok = "_Comma"
          THEN Shift(Goto(2, l), Nil)
          ELSE IF p.tok # "_Rparen"
               THEN Fail("expected a comma or \")\"")
               ELSE Step(Goto(2, l), Nil)

\* paramList reporting the mixed list at the current token
paramList_mixed_AtToken ==
    /\ At("paramList", 4)
    /\ IF top.l.named /\ top.l.unnamed
       THEN Fail("got mixed named and unnamed parameters")
       ELSE Return(Slice(top.l.list))

\* paramList: if named && unnamed, the error at the opening "("; return list
paramList_mixed ==
    /\ At("paramList", 4)
    /\ IF top.l.named /\ top.l.unnamed
       THEN errorAt(top.l.pos, "got mixed named and unnamed parameters")
       ELSE Return(Slice(top.l.list))

\* field: f.pos = p.pos(); f.Const = p.got(_Const); x := p.type_()
field_const ==
    /\ At("field", 0)
    /\ LET f == [node |-> "Field", Name |-> Nil, Type |-> Nil, Const |-> FALSE, pos |-> pos]
       IN IF p.tok = "_Const"
          THEN Shift(Call(1, [f |-> [f EXCEPT !.Const = TRUE]], Frame("type_", NoLocals)), Nil)
          ELSE Step(Call(1, [f |-> f], Frame("type_", NoLocals)), Nil)

\* field: a Name may be the name of the field: look for its annotation
field_type ==
    /\ At("field", 1)
    /\ IF ret.node = "Name"
       THEN Step(Call(2, [f |-> top.l.f, name |-> ret], Frame("annotationOrNil", NoLocals)), Nil)
       ELSE Return([node |-> "(f, named)", f |-> [top.l.f EXCEPT !.Type = ret], named |-> FALSE])

\* field: without an annotation the Name is the type, with one it is the name
field_named ==
    /\ At("field", 2)
    /\ IF IsNil(ret)
       THEN Return([node |-> "(f, named)", f |-> [top.l.f EXCEPT !.Type = top.l.name],
                    named |-> FALSE])
       ELSE Return([node |-> "(f, named)", f |-> [top.l.f EXCEPT !.Name = top.l.name, !.Type = ret],
                    named |-> TRUE])

(***************************************************************************)
(* Go's int64 and uint64.  A 64-bit word is the sequence of its eight      *)
(* bytes, the least significant first; int64 reads it in two's complement. *)
(* Arithmetic wraps around, as Go's does.                                  *)
(***************************************************************************)
\* the word of n, 0 <= n < 2^31
word(n) ==
    <<n % 256, (n \div 256) % 256, (n \div 65536) % 256, n \div 16777216, 0, 0, 0, 0>>

AllOnes == <<255, 255, 255, 255, 255, 255, 255, 255>>

\* x < 0 as an int64
sign(x) == x[8] >= 128

RECURSIVE and8(_, _)
\* a & b on bytes
and8(a, b) == IF a = 0 \/ b = 0 THEN 0 ELSE (a % 2) * (b % 2) + 2 * and8(a \div 2, b \div 2)

\* a | b and a ^ b on bytes
or8(a, b) == a + b - and8(a, b)
xor8(a, b) == a + b - 2 * and8(a, b)

\* x & y, x | y, x ^ y, ^x
wand(x, y) ==
    <<and8(x[1], y[1]), and8(x[2], y[2]), and8(x[3], y[3]), and8(x[4], y[4]),
      and8(x[5], y[5]), and8(x[6], y[6]), and8(x[7], y[7]), and8(x[8], y[8])>>
wor(x, y) ==
    <<or8(x[1], y[1]), or8(x[2], y[2]), or8(x[3], y[3]), or8(x[4], y[4]),
      or8(x[5], y[5]), or8(x[6], y[6]), or8(x[7], y[7]), or8(x[8], y[8])>>
wxor(x, y) ==
    <<xor8(x[1], y[1]), xor8(x[2], y[2]), xor8(x[3], y[3]), xor8(x[4], y[4]),
      xor8(x[5], y[5]), xor8(x[6], y[6]), xor8(x[7], y[7]), xor8(x[8], y[8])>>
wnot(x) ==
    <<255 - x[1], 255 - x[2], 255 - x[3], 255 - x[4],
      255 - x[5], 255 - x[6], 255 - x[7], 255 - x[8]>>

RECURSIVE addc(_, _, _, _)
\* the bytes i.. of x + y + c
addc(x, y, i, c) ==
    IF i > 8 THEN <<>>
    ELSE <<(x[i] + y[i] + c) % 256>> \o addc(x, y, i + 1, (x[i] + y[i] + c) \div 256)

\* x + y, -x, x - y
wadd(x, y) == addc(x, y, 1, 0)
wneg(x) == addc(wnot(x), word(0), 1, 1)
wsub(x, y) == addc(x, wnot(y), 1, 1)

\* the int64 of n, -2^31 < n < 2^31
int64(n) == IF n < 0 THEN wneg(word(-n)) ELSE word(n)

RECURSIVE ultFrom(_, _, _)
ultFrom(x, y, i) ==
    IF i = 0 THEN FALSE ELSE IF x[i] # y[i] THEN x[i] < y[i] ELSE ultFrom(x, y, i - 1)

\* x < y as uint64, and as int64
ult(x, y) == ultFrom(x, y, 8)
slt(x, y) == IF sign(x) # sign(y) THEN sign(x) ELSE ult(x, y)

RECURSIVE column(_, _, _, _)
\* the sum of the products x[i] * y[k + 1 - i], i..k
column(x, y, k, i) == IF i > k THEN 0 ELSE x[i] * y[k + 1 - i] + column(x, y, k, i + 1)

RECURSIVE mulc(_, _, _, _)
mulc(x, y, k, c) ==
    IF k > 8 THEN <<>>
    ELSE <<(column(x, y, k, 1) + c) % 256>>
         \o mulc(x, y, k + 1, (column(x, y, k, 1) + c) \div 256)

\* x * y
wmul(x, y) == mulc(x, y, 1, 0)

\* x << 1
shl1(x) == addc(x, x, 1, 0)

\* byte i of x, with fill outside the word
byte(x, i, fill) == IF i < 1 \/ i > 8 THEN fill ELSE x[i]

\* x moved up by n whole bytes, and by b < 8 bits
shlbytes(x, n) ==
    <<byte(x, 1 - n, 0), byte(x, 2 - n, 0), byte(x, 3 - n, 0), byte(x, 4 - n, 0),
      byte(x, 5 - n, 0), byte(x, 6 - n, 0), byte(x, 7 - n, 0), byte(x, 8 - n, 0)>>
shlbits(x, b) ==
    <<(x[1] * 2^b) % 256,
      ((x[2] * 2^b) % 256) + ((x[1] * 2^b) \div 256),
      ((x[3] * 2^b) % 256) + ((x[2] * 2^b) \div 256),
      ((x[4] * 2^b) % 256) + ((x[3] * 2^b) \div 256),
      ((x[5] * 2^b) % 256) + ((x[4] * 2^b) \div 256),
      ((x[6] * 2^b) % 256) + ((x[5] * 2^b) \div 256),
      ((x[7] * 2^b) % 256) + ((x[6] * 2^b) \div 256),
      ((x[8] * 2^b) % 256) + ((x[7] * 2^b) \div 256)>>

\* x moved down by n whole bytes, and by b < 8 bits; fill (0 or 255) comes in
shrbytes(x, n, fill) ==
    <<byte(x, 1 + n, fill), byte(x, 2 + n, fill), byte(x, 3 + n, fill),
      byte(x, 4 + n, fill), byte(x, 5 + n, fill), byte(x, 6 + n, fill),
      byte(x, 7 + n, fill), byte(x, 8 + n, fill)>>
shrbits(x, b, fill) ==
    <<(x[1] \div 2^b) + (x[2] % 2^b) * 2^(8 - b),
      (x[2] \div 2^b) + (x[3] % 2^b) * 2^(8 - b),
      (x[3] \div 2^b) + (x[4] % 2^b) * 2^(8 - b),
      (x[4] \div 2^b) + (x[5] % 2^b) * 2^(8 - b),
      (x[5] \div 2^b) + (x[6] % 2^b) * 2^(8 - b),
      (x[6] \div 2^b) + (x[7] % 2^b) * 2^(8 - b),
      (x[7] \div 2^b) + (x[8] % 2^b) * 2^(8 - b),
      (x[8] \div 2^b) + (fill % 2^b) * 2^(8 - b)>>

\* x << k, for an int k >= 0
wshl(x, k) == IF k >= 64 THEN word(0) ELSE shlbits(shlbytes(x, k \div 8), k % 8)

\* x >> k as uint64
wshr(x, k) == IF k >= 64 THEN word(0) ELSE shrbits(shrbytes(x, k \div 8, 0), k % 8, 0)

\* x >> k as int64
wsar(x, k) ==
    IF sign(x)
    THEN IF k >= 64 THEN AllOnes ELSE shrbits(shrbytes(x, k \div 8, 255), k % 8, 255)
    ELSE wshr(x, k)

\* a shift count given as a uint64: counts of 64 and more shift everything out
count(y) == IF ult(y, word(64)) THEN y[1] ELSE 64

\* bit k (0..63) of x
bit(x, k) == (x[(k \div 8) + 1] \div 2^(k % 8)) % 2

\* 2 * r + bit k of x: the remainder so far with the next bit of x
nextrem(r, x, k) == [shl1(r) EXCEPT ![1] = @ + bit(x, k)]

\* the highest byte of x that is not 0 (1 if there is none)
RECURSIVE topbyte(_, _)
topbyte(x, i) == IF i = 1 \/ x[i] # 0 THEN i ELSE topbyte(x, i - 1)

\* one step of the long division: nr is the remainder with the next bit of x,
\* and over says that it exceeds 64 bits (it is then above y)
divstep(y, q, nr, over) ==
    IF over \/ ~ult(nr, y)
    THEN [q |-> [shl1(q) EXCEPT ![1] = @ + 1], r |-> wsub(nr, y)]
    ELSE [q |-> shl1(q), r |-> nr]

\* the step for bit k of x behind the quotient q and the remainder r of the
\* bits above k
divbit(x, y, k, qr) == divstep(y, qr.q, nextrem(qr.r, x, k), sign(qr.r))

\* the steps for the eight bits of x from bit k down
divbyte(x, y, k, qr) ==
    divbit(x, y, k - 7, divbit(x, y, k - 6, divbit(x, y, k - 5, divbit(x, y, k - 4,
        divbit(x, y, k - 3, divbit(x, y, k - 2, divbit(x, y, k - 1,
            divbit(x, y, k, qr))))))))

RECURSIVE divmod(_, _, _, _)
\* x / y and x % y as uint64, y # 0: long division from bit k, the top bit of
\* a byte, down; qr holds the quotient and the remainder of the bits above k
divmod(x, y, k, qr) ==
    IF k < 0 \/ qr.q[1] < 0 THEN qr ELSE divmod(x, y, k - 8, divbyte(x, y, k, qr))

\* the bits above the highest byte of x that is not 0 add nothing
wudiv(x, y) == divmod(x, y, 8 * topbyte(x, 8) - 1, [q |-> word(0), r |-> word(0)]).q
wurem(x, y) == divmod(x, y, 8 * topbyte(x, 8) - 1, [q |-> word(0), r |-> word(0)]).r

wabs(x) == IF sign(x) THEN wneg(x) ELSE x

\* x / y and x % y as int64, y # 0: the quotient truncated toward zero
wsdiv(x, y) ==
    IF sign(x) # sign(y) THEN wneg(wudiv(wabs(x), wabs(y))) ELSE wudiv(wabs(x), wabs(y))
wsrem(x, y) == IF sign(x) THEN wneg(wurem(wabs(x), wabs(y))) ELSE wurem(wabs(x), wabs(y))

(***************************************************************************)
(* Go's float64, as far as the model follows it: NaN, the two infinities   *)
(* and the multiples of 1/2 of magnitude up to MaxHalves / 2, each held as *)
(* its number of halves h.  All of them are float32 values too.  A result  *)
(* outside this range is Untracked; a call that meets one is not taken.    *)
(* Zero has no sign: the code below never tells -0 from 0.                 *)
(***************************************************************************)
Fin(h) == [nan |-> FALSE, inf |-> 0, h |-> h, tracked |-> TRUE]
Inf(s) == [nan |-> FALSE, inf |-> s, h |-> 0, tracked |-> TRUE]
NaN == [nan |-> TRUE, inf |-> 0, h |-> 0, tracked |-> TRUE]
Untracked == [nan |-> FALSE, inf |-> 0, h |-> 0, tracked |-> FALSE]

finite(h) == IF h >= -MaxHalves /\ h <= MaxHalves THEN Fin(h) ELSE Untracked

IsFinite(f) == ~f.nan /\ f.inf = 0
IsInf(f) == f.inf # 0
IsNaN(f) == f.nan
IsZero(f) == IsFinite(f) /\ f.h = 0

abs(n) == IF n < 0 THEN -n ELSE n
sgn(n) == IF n < 0 THEN -1 ELSE IF n > 0 THEN 1 ELSE 0
signum(f) == IF IsInf(f) THEN f.inf ELSE sgn(f.h)

\* -f, f + g, f - g, f * g and f / g (g # 0) as IEEE 754 has them
fneg(f) == [f EXCEPT !.inf = -@, !.h = -@]
fadd(f, g) ==
    IF ~f.tracked \/ ~g.tracked THEN Untracked
    ELSE IF f.nan \/ g.nan THEN NaN
    ELSE IF IsInf(f) /\ IsInf(g) THEN IF f.inf = g.inf THEN f ELSE NaN
    ELSE IF IsInf(f) THEN f
    ELSE IF IsInf(g) THEN g
    ELSE finite(f.h + g.h)
fsub(f, g) == fadd(f, fneg(g))
fmul(f, g) ==
    IF ~f.tracked \/ ~g.tracked THEN Untracked
    ELSE IF f.nan \/ g.nan THEN NaN
    ELSE IF IsInf(f) \/ IsInf(g)
         THEN IF signum(f) * signum(g) = 0 THEN NaN ELSE Inf(signum(f) * signum(g))
    ELSE IF (f.h * g.h) % 2 = 0
         THEN finite(sgn(f.h * g.h) * (abs(f.h * g.h) \div 2))
    ELSE Untracked
fdiv(f, g) ==
    IF ~f.tracked \/ ~g.tracked THEN Untracked
    ELSE IF f.nan \/ g.nan THEN NaN
    ELSE IF IsInf(f) THEN IF IsInf(g) THEN NaN ELSE Inf(signum(f) * signum(g))
    ELSE IF IsInf(g) THEN Fin(0)
    ELSE IF (2 * abs(f.h)) % abs(g.h) = 0
         THEN finite(signum(f) * signum(g) * ((2 * abs(f.h)) \div abs(g.h)))
    ELSE Untracked

\* f == g, f < g, f <= g
feq(f, g) == ~f.nan /\ ~g.nan /\ f.inf = g.inf /\ f.h = g.h
flt(f, g) ==
    /\ ~f.nan /\ ~g.nan
    /\ IF f.inf # g.inf THEN f.inf < g.inf ELSE f.inf = 0 /\ f.h < g.h
fle(f, g) == flt(f, g) \/ feq(f, g)

\* math.Trunc(f) of a finite f, as an integer
Trunc(f) == sgn(f.h) * (abs(f.h) \div 2)

\* the integer of a word whose value MaxHalves bounds
mag(x) == x[1] + 256 * x[2] + 65536 * x[3]
small(x) == ~slt(x, int64(-MaxHalves)) /\ ~slt(int64(MaxHalves), x)

\* float64(x) of an int64 and of a uint64
floatOfInt(x) ==
    IF small(wadd(x, x)) /\ small(x)
    THEN IF sign(x) THEN Fin(-2 * mag(wneg(x))) ELSE Fin(2 * mag(x))
    ELSE Untracked
floatOfUint(x) == IF ~sign(x) THEN floatOfInt(x) ELSE Untracked

\* float64(float32(f)): every tracked value is a float32
float32(f) == f

\* the words that a conversion of a float outside the integer type's range
\* may give: the language leaves the result to the implementation
OutOfRange == {word(0), AllOnes, wshl(word(1), 63), wnot(wshl(word(1), 63))}

\* int64(f) and uint64(f); c is the implementation's result beyond the range
intOfFloat(f, c) == IF IsFinite(f) THEN int64(Trunc(f)) ELSE c
uintOfFloat(f, c) == IF IsFinite(f) /\ Trunc(f) >= 0 THEN word(Trunc(f)) ELSE c

(***************************************************************************)
(* Kinds (type.go): the Kind is its number.                                *)
(***************************************************************************)
TUNDEF == 0
TTYPE == 1
TVOID == 2
TBOOL == 3
TINT8 == 4
TINT16 == 5
TINT32 == 6
TINT64 == 7
TINTPTR == 8
TUINT8 == 9
TUINT16 == 10
TUINT32 == 11
TUINT64 == 12
TUINTPTR == 13
TFLOAT32 == 14
TFLOAT64 == 15
NBASIC == 16
TPOINTER == 17
TOPTION == 18
TARRAY == 19
TPROC == 20
TSTRUCT == 21
NTYPES == 22

Kinds == TUNDEF..NTYPES

IsSigned(k) == k >= TINT8 /\ k <= TINTPTR
IsUnsigned(k) == k >= TUINT8 /\ k <= TUINTPTR
IsFloat(k) == k = TFLOAT32 \/ k = TFLOAT64

(***************************************************************************)
(* Constant values (value.go).  A Value is a record of its dynamic type,   *)
(* its payload and its width bits (0 where the type has none).  The        *)
(* payload is x for an integer, f for a float (the field x of floatValue)  *)
(* and b for a boolean; the fields that a type does not have are zero.  A  *)
(* call that panics yields Panic in place of a Value.                      *)
(***************************************************************************)
Value(type, x, f, b, bits) == [type |-> type, x |-> x, f |-> f, b |-> b, bits |-> bits]

Undefined == Value("undef", word(0), Fin(0), FALSE, 0)
typeValue == Value("type", word(0), Fin(0), FALSE, 0)
boolValue(b) == Value("bool", word(0), Fin(0), b, 0)
intValue(x, bits) == Value("int", x, Fin(0), FALSE, bits)
uintValue(x, bits) == Value("uint", x, Fin(0), FALSE, bits)
floatValue(x, bits) == Value("float", word(0), x, FALSE, bits)
Panic == Value("panic", word(0), Fin(0), FALSE, 0)
\* a result that the model does not follow (see the floats above)
Unfollowed == Value("unfollowed", word(0), Fin(0), FALSE, 0)

MakeBool(b) == boolValue(b)

\* -1<<31, 1<<31-1 and 1<<32-1
MinInt32 == wneg(wshl(word(1), 31))
MaxInt32 == wsub(wshl(word(1), 31), word(1))
MaxUint32 == wsub(wshl(word(1), 32), word(1))

\* MakeInt with x >= 1<<31-1 in place of x > 1<<31-1
MakeInt_OffByOne(x) ==
    IF slt(x, MinInt32) \/ ~slt(x, MaxInt32) THEN intValue(x, 64) ELSE intValue(x, 32)

MakeInt(x) ==
    IF slt(x, MinInt32) \/ slt(MaxInt32, x) THEN intValue(x, 64) ELSE intValue(x, 32)

MakeUint(x) == IF ult(MaxUint32, x) THEN uintValue(x, 64) ELSE uintValue(x, 32)

MakeFloat(x) ==
    IF ~x.tracked THEN Unfollowed
    ELSE IF feq(float32(x), x) THEN floatValue(x, 32) ELSE floatValue(x, 64)

\* the model follows v
Tracked(v) == v.type # "unfollowed" /\ v.f.tracked

\* the Kind of a width
intKind(bits) ==
    CASE bits = 8 -> TINT8 [] bits = 16 -> TINT16 [] bits = 32 -> TINT32 [] bits = 64 -> TINT64
uintKind(bits) ==
    CASE bits = 8 -> TUINT8 [] bits = 16 -> TUINT16 [] bits = 32 -> TUINT32
      [] bits = 64 -> TUINT64
floatKind(bits) == CASE bits = 32 -> TFLOAT32 [] bits = 64 -> TFLOAT64

Kind(v) ==
    CASE v.type = "undef" -> TUNDEF
      [] v.type = "type" -> TTYPE
      [] v.type = "bool" -> TBOOL
      [] v.type = "int" -> intKind(v.bits)
      [] v.type = "uint" -> uintKind(v.bits)
      [] v.type = "float" -> floatKind(v.bits)

\* kindbits panics where it has no case: 0 stands for the panic
kindbits(k) ==
    CASE k \in {TINT8, TUINT8} -> 8
      [] k \in {TINT16, TUINT16} -> 16
      [] k \in {TINT32, TUINT32, TFLOAT32} -> 32
      [] k \in {TINT64, TUINT64, TFLOAT64} -> 64
      [] OTHER -> 0

sextlow(x, n) == wand(x, wnot(wshl(AllOnes, n)))
sextmask(low, n) == wsar(wshl(wand(low, wshl(word(1), n - 1)), 64 - n), 64 - n)
sext(x, n) == wor(sextlow(x, n), sextmask(sextlow(x, n), n))

zext(x, n) == wand(x, wshr(AllOnes, 64 - n))

floatCanInt64(f) == IsFinite(f) /\ f.h % 2 = 0
floatCanUint64(f) == IsFinite(f) /\ f.h % 2 = 0 /\ f.h >= 0

\* the operators of tokens.go
Comparisons == {"Eql", "Neq", "Lss", "Leq", "Gtr", "Geq"}
Operators ==
    {"Not", "LNot", "Inc", "Dec", "Deref", "OrOr", "AndAnd"} \cup Comparisons
        \cup {"Add", "Sub", "Or", "Xor", "Mul", "Div", "Rem", "And", "Shl", "Shr"}

\* x op y on int64, on uint64 and on float64, op a comparison
icmp(op, x, y) ==
    CASE op = "Eql" -> x = y
      [] op = "Neq" -> x # y
      [] op = "Lss" -> slt(x, y)
      [] op = "Leq" -> ~slt(y, x)
      [] op = "Gtr" -> slt(y, x)
      [] op = "Geq" -> ~slt(x, y)
ucmp(op, x, y) ==
    CASE op = "Eql" -> x = y
      [] op = "Neq" -> x # y
      [] op = "Lss" -> ult(x, y)
      [] op = "Leq" -> ~ult(y, x)
      [] op = "Gtr" -> ult(y, x)
      [] op = "Geq" -> ~ult(x, y)
fcmp(op, f, g) ==
    CASE op = "Eql" -> feq(f, g)
      [] op = "Neq" -> ~feq(f, g)
      [] op = "Lss" -> flt(f, g)
      [] op = "Leq" -> fle(f, g)
      [] op = "Gtr" -> flt(g, f)
      [] op = "Geq" -> fle(g, f)

\* MakeBool of a comparison of floats, as far as the model follows them
fbool(op, f, g) == IF f.tracked /\ g.tracked THEN MakeBool(fcmp(op, f, g)) ELSE Unfollowed

(***************************************************************************)
(* undefValue, typeValue, boolValue                                        *)
(***************************************************************************)
undefValue_Convert(v, to) == Undefined

typeValue_Convert(v, to) == IF to = Kind(v) THEN v ELSE Undefined

boolValue_Unary(v, op) == IF op = "LNot" THEN MakeBool(~v.b) ELSE Undefined

boolValue_Binary(v, op, w) ==
    IF w.type = "bool"
    THEN CASE op = "OrOr" -> MakeBool(v.b \/ w.b)
           [] op = "AndAnd" -> MakeBool(v.b /\ w.b)
           [] op = "Eql" -> MakeBool(v.b = w.b)
           [] op = "Neq" -> MakeBool(v.b # w.b)
           [] OTHER -> Undefined
    ELSE Undefined

boolValue_Convert(v, to) == IF to = Kind(v) THEN v ELSE Undefined

(***************************************************************************)
(* intValue                                                                *)
(***************************************************************************)
intValue_Unary(v, op) ==
    MakeInt(CASE op = "Not" -> wnot(v.x)
              [] op = "Inc" -> wadd(v.x, word(1))
              [] op = "Dec" -> wsub(v.x, word(1))
              [] op = "Add" -> v.x
              [] op = "Sub" -> wneg(v.x)
              [] OTHER -> v.x)

\* signed op unsigned, op a comparison
intValue_CompareUint(v, op, w) ==
    CASE op = "Eql" -> MakeBool(~sign(v.x) /\ v.x = w.x)
      [] op = "Neq" -> MakeBool(sign(v.x) \/ v.x # w.x)
      [] op = "Lss" -> MakeBool(sign(v.x) \/ ult(v.x, w.x))
      [] op = "Leq" -> MakeBool(sign(v.x) /\ ~ult(w.x, v.x))
      [] op = "Gtr" -> MakeBool(~sign(v.x) /\ ult(w.x, v.x))
      [] op = "Geq" -> MakeBool(~sign(v.x) /\ ~ult(v.x, w.x))

intValue_CompareFloat(v, op, w) ==
    IF IsInf(w.f) \/ IsNaN(w.f) THEN MakeBool(FALSE)
    ELSE IF floatCanInt64(w.f) THEN MakeBool(icmp(op, v.x, intOfFloat(w.f, word(0))))
    ELSE fbool(op, floatOfInt(v.x), w.f)

intValue_Compare(v, op, w) ==
    CASE w.type = "int" -> MakeBool(icmp(op, v.x, w.x))
      [] w.type = "uint" -> intValue_CompareUint(v, op, w)
      [] w.type = "float" -> intValue_CompareFloat(v, op, w)
      [] OTHER -> Undefined

\* Add, Sub, Mul, which take a float too
intValue_Arith(v, op, w) ==
    CASE w.type \in {"int", "uint"} ->
            MakeInt(CASE op = "Add" -> wadd(v.x, w.x)
                      [] op = "Sub" -> wsub(v.x, w.x)
                      [] op = "Mul" -> wmul(v.x, w.x))
      [] w.type = "float" ->
            MakeFloat(CASE op = "Add" -> fadd(floatOfInt(v.x), w.f)
                        [] op = "Sub" -> fsub(floatOfInt(v.x), w.f)
                        [] op = "Mul" -> fmul(floatOfInt(v.x), w.f))
      [] OTHER -> Undefined

\* Or, Xor, And
intValue_Bitwise(v, op, w) ==
    IF w.type \in {"int", "uint"}
    THEN MakeInt(CASE op = "Or" -> wor(v.x, w.x)
                   [] op = "Xor" -> wxor(v.x, w.x)
                   [] op = "And" -> wand(v.x, w.x))
    ELSE Undefined

\* Div with the integer division done whatever the divisor: Go panics on 0
intValue_Div_Unchecked(v, w) ==
    CASE w.type \in {"int", "uint"} ->
            IF w.x = word(0) THEN Panic ELSE MakeInt(wsdiv(v.x, w.x))
      [] w.type = "float" ->
            IF IsZero(w.f) THEN Undefined ELSE MakeFloat(fdiv(floatOfInt(v.x), w.f))
      [] OTHER -> Undefined

intValue_Div(v, w) ==
    CASE w.type \in {"int", "uint"} ->
            IF w.x = word(0) THEN Undefined ELSE MakeInt(wsdiv(v.x, w.x))
      [] w.type = "float" ->
            IF IsZero(w.f) THEN Undefined ELSE MakeFloat(fdiv(floatOfInt(v.x), w.f))
      [] OTHER -> Undefined

intValue_Rem(v, w) ==
    IF w.type \in {"int", "uint"}
    THEN IF w.x = word(0) THEN Undefined ELSE MakeInt(wsrem(v.x, w.x))
    ELSE Undefined

\* Shl, Shr: v.x >> n is the arithmetic shift
intValue_Shift(v, op, w) ==
    IF w.type \in {"int", "uint"}
    THEN IF w.type = "int" /\ sign(w.x)
         THEN Undefined
         ELSE MakeInt(IF op = "Shl" THEN wshl(v.x, count(w.x)) ELSE wsar(v.x, count(w.x)))
    ELSE Undefined

intValue_Binary(v, op, w) ==
    CASE op \in Comparisons -> intValue_Compare(v, op, w)
      [] op \in {"Add", "Sub", "Mul"} -> intValue_Arith(v, op, w)
      [] op \in {"Or", "Xor", "And"} -> intValue_Bitwise(v, op, w)
      [] op = "Div" -> intValue_Div(v, w)
      [] op = "Rem" -> intValue_Rem(v, w)
      [] op \in {"Shl", "Shr"} -> intValue_Shift(v, op, w)
      [] OTHER -> Undefined

\* Convert to a kind of n bits
intValue_ConvertBits(v, to, n) ==
    CASE IsSigned(to) ->
            IF n > v.bits THEN intValue(sext(v.x, v.bits), n) ELSE intValue(sext(v.x, n), n)
      [] IsUnsigned(to) ->
            IF n > v.bits THEN uintValue(sext(v.x, v.bits), n) ELSE uintValue(zext(v.x, n), n)
      [] IsFloat(to) ->
            IF n = 32 THEN floatValue(float32(floatOfInt(v.x)), n)
                      ELSE floatValue(floatOfInt(v.x), n)

intValue_Convert(v, to) ==
    IF to = Kind(v) THEN v
    ELSE IF IsSigned(to) \/ IsUnsigned(to) \/ IsFloat(to)
         THEN IF kindbits(to) = 0 THEN Panic ELSE intValue_ConvertBits(v, to, kindbits(to))
    ELSE Undefined

(***************************************************************************)
(* uintValue                                                               *)
(***************************************************************************)
uintValue_Unary(v, op) ==
    MakeUint(CASE op = "Not" -> wnot(v.x)
               [] op = "Inc" -> wadd(v.x, word(1))
               [] op = "Dec" -> wsub(v.x, word(1))
               [] op = "Add" -> v.x
               [] op = "Sub" -> wneg(v.x)
               [] OTHER -> v.x)

\* unsigned op signed, op a comparison
uintValue_CompareInt(v, op, w) ==
    CASE op = "Eql" -> MakeBool(~sign(w.x) /\ v.x = w.x)
      [] op = "Neq" -> MakeBool(sign(w.x) \/ v.x # w.x)
      [] op = "Lss" -> MakeBool(~sign(w.x) /\ ult(v.x, w.x))
      [] op = "Leq" -> MakeBool(~sign(w.x) /\ ~ult(w.x, v.x))
      [] op = "Gtr" -> MakeBool(sign(w.x) \/ ult(w.x, v.x))
      [] op = "Geq" -> MakeBool(sign(w.x) \/ ~ult(v.x, w.x))

\* unsigned op unsigned: Neq is written with ==
uintValue_CompareUint(v, op, w) ==
    IF op = "Neq" THEN MakeBool(v.x = w.x) ELSE MakeBool(ucmp(op, v.x, w.x))

uintValue_CompareFloat(v, op, w) ==
    IF IsInf(w.f) \/ IsNaN(w.f) THEN MakeBool(FALSE)
    ELSE IF floatCanUint64(w.f) THEN MakeBool(ucmp(op, v.x, uintOfFloat(w.f, word(0))))
    ELSE fbool(op, floatOfUint(v.x), w.f)

uintValue_Compare(v, op, w) ==
    CASE w.type = "int" -> uintValue_CompareInt(v, op, w)
      [] w.type = "uint" -> uintValue_CompareUint(v, op, w)
      [] w.type = "float" -> uintValue_CompareFloat(v, op, w)
      [] OTHER -> Undefined

uintValue_Arith(v, op, w) ==
    CASE w.type \in {"int", "uint"} ->
            MakeUint(CASE op = "Add" -> wadd(v.x, w.x)
                       [] op = "Sub" -> wsub(v.x, w.x)
                       [] op = "Mul" -> wmul(v.x, w.x))
      [] w.type = "float" ->
            MakeFloat(CASE op = "Add" -> fadd(floatOfUint(v.x), w.f)
                        [] op = "Sub" -> fsub(floatOfUint(v.x), w.f)
                        [] op = "Mul" -> fmul(floatOfUint(v.x), w.f))
      [] OTHER -> Undefined

uintValue_Bitwise(v, op, w) ==
    IF w.type \in {"int", "uint"}
    THEN MakeUint(CASE op = "Or" -> wor(v.x, w.x)
                    [] op = "Xor" -> wxor(v.x, w.x)
                    [] op = "And" -> wand(v.x, w.x))
    ELSE Undefined

uintValue_Div(v, w) ==
    CASE w.type \in {"int", "uint"} ->
            IF w.x = word(0) THEN Undefined ELSE MakeUint(wudiv(v.x, w.x))
      [] w.type = "float" ->
            IF IsZero(w.f) THEN Undefined ELSE MakeFloat(fdiv(floatOfUint(v.x), w.f))
      [] OTHER -> Undefined

uintValue_Rem(v, w) ==
    IF w.type \in {"int", "uint"}
    THEN IF w.x = word(0) THEN Undefined ELSE MakeUint(wurem(v.x, w.x))
    ELSE Undefined

\* Shl, Shr: v.x >> n is the logical shift
uintValue_Shift(v, op, w) ==
    IF w.type \in {"int", "uint"}
    THEN IF w.type = "int" /\ sign(w.x)
         THEN Undefined
         ELSE MakeUint(IF op = "Shl" THEN wshl(v.x, count(w.x)) ELSE wshr(v.x, count(w.x)))
    ELSE Undefined

uintValue_Binary(v, op, w) ==
    CASE op \in Comparisons -> uintValue_Compare(v, op, w)
      [] op \in {"Add", "Sub", "Mul"} -> uintValue_Arith(v, op, w)
      [] op \in {"Or", "Xor", "And"} -> uintValue_Bitwise(v, op, w)
      [] op = "Div" -> uintValue_Div(v, w)
      [] op = "Rem" -> uintValue_Rem(v, w)
      [] op \in {"Shl", "Shr"} -> uintValue_Shift(v, op, w)
      [] OTHER -> Undefined

uintValue_ConvertBits(v, to, n) ==
    CASE IsSigned(to) ->
            IF n > v.bits THEN intValue(zext(v.x, v.bits), n) ELSE intValue(sext(v.x, n), n)
      [] IsUnsigned(to) ->
            IF n > v.bits THEN uintValue(zext(v.x, v.bits), n) ELSE uintValue(zext(v.x, n), n)
      [] IsFloat(to) ->
            IF n = 32 THEN floatValue(float32(floatOfUint(v.x)), n)
                      ELSE floatValue(floatOfUint(v.x), n)

uintValue_Convert(v, to) ==
    IF to = Kind(v) THEN v
    ELSE IF IsSigned(to) \/ IsUnsigned(to) \/ IsFloat(to)
         THEN IF kindbits(to) = 0 THEN Panic ELSE uintValue_ConvertBits(v, to, kindbits(to))
    ELSE Undefined

(***************************************************************************)
(* floatValue                                                              *)
(***************************************************************************)
floatValue_Unary(v, op) ==
    MakeFloat(CASE op = "Inc" -> fadd(v.f, Fin(2))
                [] op = "Dec" -> fsub(v.f, Fin(2))
                [] op = "Add" -> v.f
                [] op = "Sub" -> fneg(v.f)
                [] OTHER -> v.f)

floatValue_CompareInt(v, op, w) ==
    IF IsInf(v.f) \/ IsNaN(v.f) THEN MakeBool(FALSE)
    ELSE IF floatCanInt64(v.f) THEN MakeBool(icmp(op, intOfFloat(v.f, word(0)), w.x))
    ELSE fbool(op, v.f, floatOfInt(w.x))

floatValue_CompareUint(v, op, w) ==
    IF IsInf(v.f) \/ IsNaN(v.f) THEN MakeBool(FALSE)
    ELSE IF floatCanUint64(v.f) THEN MakeBool(ucmp(op, uintOfFloat(v.f, word(0)), w.x))
    ELSE fbool(op, v.f, floatOfUint(w.x))

floatValue_Compare(v, op, w) ==
    CASE w.type = "int" -> floatValue_CompareInt(v, op, w)
      [] w.type = "uint" -> floatValue_CompareUint(v, op, w)
      [] w.type = "float" -> MakeBool(fcmp(op, v.f, w.f))
      [] OTHER -> Undefined

\* float64(w.x) of an integer w, and w.x of a float
floatValue_operand(w) ==
    CASE w.type = "int" -> floatOfInt(w.x)
      [] w.type = "uint" -> floatOfUint(w.x)
      [] w.type = "float" -> w.f

floatValue_Arith(v, op, w) ==
    IF w.type \in {"int", "uint", "float"}
    THEN MakeFloat(CASE op = "Add" -> fadd(v.f, floatValue_operand(w))
                     [] op = "Sub" -> fsub(v.f, floatValue_operand(w))
                     [] op = "Mul" -> fmul(v.f, floatValue_operand(w)))
    ELSE Undefined

floatValue_Div(v, w) ==
    CASE w.type \in {"int", "uint"} ->
            IF w.x = word(0) THEN Undefined ELSE MakeFloat(fdiv(v.f, floatValue_operand(w)))
      [] w.type = "float" ->
            IF IsZero(w.f) THEN Undefined ELSE MakeFloat(fdiv(v.f, w.f))
      [] OTHER -> Undefined

floatValue_Binary(v, op, w) ==
    CASE op \in Comparisons -> floatValue_Compare(v, op, w)
      [] op \in {"Add", "Sub", "Mul"} -> floatValue_Arith(v, op, w)
      [] op = "Div" -> floatValue_Div(v, w)
      [] OTHER -> Undefined

\* c is what the implementation gives where v.f is beyond the integer type
floatValue_ConvertBits(v, to, n, c) ==
    CASE IsSigned(to) -> intValue(sext(intOfFloat(v.f, c), n), n)
      [] IsUnsigned(to) -> uintValue(zext(uintOfFloat(v.f, c), n), n)
      [] IsFloat(to) -> IF n = 32 THEN floatValue(float32(v.f), n) ELSE v

floatValue_Convert(v, to, c) ==
    IF to = Kind(v) THEN v
    ELSE IF IsSigned(to) \/ IsUnsigned(to) \/ IsFloat(to)
         THEN IF kindbits(to) = 0 THEN Panic ELSE floatValue_ConvertBits(v, to, kindbits(to), c)
    ELSE Undefined

(***************************************************************************)
(* The methods of the interface Value, by the dynamic type of v.           *)
(***************************************************************************)
Unary(v, op) ==
    CASE v.type = "bool" -> boolValue_Unary(v, op)
      [] v.type = "int" -> intValue_Unary(v, op)
      [] v.type = "uint" -> uintValue_Unary(v, op)
      [] v.type = "float" -> floatValue_Unary(v, op)
      [] OTHER -> Undefined

Binary(v, op, w) ==
    CASE v.type = "bool" -> boolValue_Binary(v, op, w)
      [] v.type = "int" -> intValue_Binary(v, op, w)
      [] v.type = "uint" -> uintValue_Binary(v, op, w)
      [] v.type = "float" -> floatValue_Binary(v, op, w)
      [] OTHER -> Undefined

Convert(v, to, c) ==
    CASE v.type = "undef" -> undefValue_Convert(v, to)
      [] v.type = "type" -> typeValue_Convert(v, to)
      [] v.type = "bool" -> boolValue_Convert(v, to)
      [] v.type = "int" -> intValue_Convert(v, to)
      [] v.type = "uint" -> uintValue_Convert(v, to)
      [] v.type = "float" -> floatValue_Convert(v, to, c)

(***************************************************************************)
(* Calls of the methods of a Value.  value is the receiver; a call of      *)
(* Convert that returns makes its result the receiver of the calls after   *)
(* it, so that the narrow integers and the wide floats are receivers too.  *)
(* A run is up to MaxCalls calls; a call of Unary or Binary, or a panic,   *)
(* ends it.                                                                *)
(***************************************************************************)
\* the input values, made by MakeType (Undefined for nil), MakeBool, MakeInt,
\* MakeUint and MakeFloat
Inputs ==
    <<Undefined, typeValue, MakeBool(FALSE), MakeBool(TRUE),
      MakeInt(word(0)), MakeInt(word(1)), MakeInt(word(2)), MakeInt(AllOnes),
      MakeInt(wshl(word(1), 31)), MakeInt(wshl(word(1), 63)),
      MakeUint(word(0)), MakeUint(word(1)), MakeUint(word(2)),
      MakeUint(wshl(word(1), 32)), MakeUint(AllOnes),
      MakeFloat(Fin(0)), MakeFloat(Fin(2)), MakeFloat(Fin(3)), MakeFloat(Fin(-4)),
      MakeFloat(NaN), MakeFloat(Inf(1)), MakeFloat(Inf(-1))>>

ValueIdle ==
    /\ value = Undefined
    /\ result = Nil
    /\ ncalls = 0

\* a call: its receiver, its arguments and what it returned
CallOf(method, v, op, w, to, r) ==
    [node |-> method, v |-> v, op |-> op, w |-> w, to |-> to, r |-> r]

\* no call has ended the run
Running ==
    /\ ncalls < MaxCalls
    /\ IsNil(result) \/ (result.node = "Convert" /\ result.r.type # "panic")

\* the call has returned r
Returned(call) ==
    /\ Tracked(call.r)
    /\ result' = call
    /\ value' = IF call.node = "Convert" /\ call.r.type # "panic" THEN call.r ELSE value
    /\ ncalls' = ncalls + 1
    /\ UNCHANGED noncalc

call_Unary(op) ==
    /\ Running
    /\ Returned(CallOf("Unary", value, op, Undefined, TUNDEF, Unary(value, op)))

call_Binary(op, w) ==
    /\ Running
    /\ Returned(CallOf("Binary", value, op, w, TUNDEF, Binary(value, op, w)))

\* the conversions of v that are left to the implementation
Choices(v, to) ==
    IF v.type = "float" /\ (IsSigned(to) \/ IsUnsigned(to)) THEN OutOfRange ELSE {word(0)}

call_Convert(to, c) ==
    /\ Running
    /\ c \in Choices(value, to)
    /\ Returned(CallOf("Convert", value, "0", Undefined, to, Convert(value, to, c)))

(***************************************************************************)
(* The escape mechanism of package base (bailout.go) in a goroutine of any *)
(* shape: calls nest up to MaxDepth deep, any of them may defer            *)
(* CatchBailout, with a handler or with nil, and may panic, through        *)
(* Bailout or with a value of its own (as Parse does for a nil reader,     *)
(* before its defer, and source.fill for a negative read, below it).       *)
(* Go runs the deferred calls of a frame when it returns and when a panic  *)
(* unwinds it; recover() in a deferred call stops the panic, and the       *)
(* caller of the frame resumes.  A panic that unwinds the last frame       *)
(* crashes the goroutine.                                                  *)
(***************************************************************************)
Payloads == {"e1", "e2"}

\* the value of a panic: a bailout{payload} or any other value; no panic
bailout(pl) == [active |-> TRUE, bail |-> TRUE, payload |-> pl]
ordinary(pl) == [active |-> TRUE, bail |-> FALSE, payload |-> pl]
NoPanic == [active |-> FALSE, bail |-> FALSE, payload |-> ""]

PlainFrame == [deferred |-> FALSE, handler |-> FALSE]

Event(ev, e, stk) == [ev |-> ev, bail |-> e.bail, payload |-> e.payload, stack |-> stk]

Raised == Cardinality({ i \in DOMAIN events : events[i].ev = "raise" })

EscapeIdle ==
    /\ callstack = <<>>
    /\ panicking = NoPanic
    /\ events = <<>>

\* a call of a function
call ==
    /\ ~panicking.active
    /\ callstack # <<>>
    /\ Len(callstack) < MaxDepth
    /\ callstack' = Append(callstack, PlainFrame)
    /\ UNCHANGED <<panicking, events>>
    /\ UNCHANGED nonescape

\* defer base.CatchBailout(handler); nil tells a nil handler
defer_CatchBailout(nil) ==
    /\ ~panicking.active
    /\ callstack # <<>>
    /\ ~callstack[Len(callstack)].deferred
    /\ callstack' = [callstack EXCEPT ![Len(callstack)] = [deferred |-> TRUE, handler |-> ~nil]]
    /\ UNCHANGED <<panicking, events>>
    /\ UNCHANGED nonescape

\* panic(e)
panic(e) ==
    /\ ~panicking.active
    /\ callstack # <<>>
    /\ Raised < MaxPanics
    /\ panicking' = e
    /\ events' = Append(events, Event("raise", e, callstack))
    /\ UNCHANGED callstack
    /\ UNCHANGED nonescape

base_Bailout(pl) == panic(bailout(pl))

\* CatchBailout that returns whatever it recovers
base_CatchBailout_Swallows(e, handler) ==
    IF e.active
    THEN IF e.bail THEN [called |-> handler, repanic |-> FALSE]
                   ELSE [called |-> FALSE, repanic |-> FALSE]
    ELSE [called |-> FALSE, repanic |-> FALSE]

\* CatchBailout, e being what recover() returns: is the handler called, and
\* does CatchBailout panic with e again
base_CatchBailout(e, handler) ==
    IF e.active
    THEN IF e.bail THEN [called |-> handler, repanic |-> FALSE]
                   ELSE [called |-> FALSE, repanic |-> TRUE]
    ELSE [called |-> FALSE, repanic |-> FALSE]

\* the events of a deferred CatchBailout that ran with outcome o in the top frame
Caught(o) ==
    (IF o.called THEN <<Event("handler", panicking, callstack)>> ELSE <<>>)
    \o (IF o.repanic THEN <<Event("pass", panicking, callstack)>> ELSE <<>>)
    \o (IF panicking.active /\ ~o.repanic
        THEN <<Event("resume", panicking, SubSeq(callstack, 1, Len(callstack) - 1))>>
        ELSE <<>>)
    \o (IF o.repanic /\ Len(callstack) = 1 THEN <<Event("crash", panicking, <<>>)>> ELSE <<>>)

\* a function returns: its deferred call runs, and recover() returns nil
return_ ==
    /\ ~panicking.active
    /\ callstack # <<>>
    /\ LET f == callstack[Len(callstack)]
           o == IF f.deferred THEN base_CatchBailout(NoPanic, f.handler)
                              ELSE [called |-> FALSE, repanic |-> FALSE]
       IN  /\ events' = events \o Caught(o)
           /\ panicking' = IF o.repanic THEN panicking ELSE NoPanic
    /\ callstack' = SubSeq(callstack, 1, Len(callstack) - 1)
    /\ UNCHANGED nonescape

\* the panic unwinds a frame that has deferred nothing
unwind ==
    /\ panicking.active
    /\ callstack # <<>>
    /\ ~callstack[Len(callstack)].deferred
    /\ callstack' = SubSeq(callstack, 1, Len(callstack) - 1)
    /\ events' = IF Len(callstack) = 1 THEN Append(events, Event("crash", panicking, <<>>))
                                       ELSE events
    /\ UNCHANGED panicking
    /\ UNCHANGED nonescape

\* the panic unwinds a frame that has deferred CatchBailout
unwind_CatchBailout ==
    /\ panicking.active
    /\ callstack # <<>>
    /\ callstack[Len(callstack)].deferred
    /\ LET o == base_CatchBailout(panicking, callstack[Len(callstack)].handler)
       IN  /\ events' = events \o Caught(o)
           /\ panicking' = IF o.repanic THEN panicking ELSE NoPanic
    /\ callstack' = SubSeq(callstack, 1, Len(callstack) - 1)
    /\ UNCHANGED nonescape

(***************************************************************************)
(* The file table of package src under concurrent calls.  A goroutine is   *)
(* in at most one call of insert or lookup; a call is a sequence of steps  *)
(* between which the other goroutines run.  mu.Lock() waits until nobody   *)
(* holds the lock, mu.RLock() until no writer holds it.                    *)
(***************************************************************************)
Procs == 1..MaxProcs

\* the file names handed to insert
TableNames == {"", "a.co", "b.co"}

\* the indices handed to lookup
TableIndices == 0..(Cardinality(TableNames) + 1)

\* indexmap[filename]: the zero value for a missing key
mapIndex(filename) == IF filename \in DOMAIN indexmap THEN indexmap[filename] ELSE 0

\* index -= 1 on a uint32: 0 wraps to 2^32 - 1, written -1 here
dec32(index) == IF index = 0 THEN -1 ELSE index - 1

\* index < uint32(n), unsigned: 2^32 - 1 is below no length
below(index, n) == index # -1 /\ index < n

IdleCall == [pc |-> "idle", filename |-> "", index |-> 0]

TableInit ==
    /\ indexmap = <<>>
    /\ mu = [writer |-> 0, readers |-> {}]
    /\ calls = [q \in Procs |-> IdleCall]
    /\ returned = {}


\* the step of the call of goroutine q
Continue(q, pc, filename, index) ==
    calls' = [calls EXCEPT ![q] = [pc |-> pc, filename |-> filename, index |-> index]]

Done(q, op, filename, index) ==
    /\ calls' = [calls EXCEPT ![q] = IdleCall]
    /\ returned' = returned \cup {[op |-> op, filename |-> filename, index |-> index]}

\* insert(""): return 0, without the lock
insert_empty(q) ==
    /\ calls[q].pc = "idle"
    /\ Done(q, "insert", "", 0)
    /\ UNCHANGED <<nontable, namelist, indexmap, mu>>

\* insert(filename) that takes the lock although others hold it
insert_Lock_NoExclusion(q) ==
    /\ calls[q].pc = "idle"
    /\ \E filename \in TableNames \ {""} : Continue(q, "insert_index", filename, 0)
    /\ mu' = [mu EXCEPT !.writer = q]
    /\ UNCHANGED <<nontable, namelist, indexmap, returned>>

\* insert(filename), filename != "": mu.Lock()
insert_Lock(q) ==
    /\ calls[q].pc = "idle"
    /\ mu.writer = 0
    /\ mu.readers = {}
    /\ \E filename \in TableNames \ {""} : Continue(q, "insert_index", filename, 0)
    /\ mu' = [mu EXCEPT !.writer = q]
    /\ UNCHANGED <<nontable, namelist, indexmap, returned>>

\* insert: if index = indexmap[filename]; index == 0 {
\*   index = uint32(len(indexmap) + 1); indexmap[filename] = index
insert_index(q) ==
    /\ calls[q].pc = "insert_index"
    /\ LET filename == calls[q].filename
           index == Cardinality(DOMAIN indexmap) + 1
       IN IF mapIndex(filename) = 0
          THEN /\ indexmap' = [f \in DOMAIN indexmap \cup {filename} |->
                                   IF f = filename THEN index ELSE indexmap[f]]
               /\ Continue(q, "insert_append", filename, index)
          ELSE /\ Continue(q, "insert_Unlock", filename, mapIndex(filename))
               /\ UNCHANGED indexmap
    /\ UNCHANGED <<nontable, namelist, mu, returned>>

\* insert: namelist = append(namelist, filename) }
insert_append(q) ==
    /\ calls[q].pc = "insert_append"
    /\ namelist' = Append(namelist, calls[q].filename)
    /\ Continue(q, "insert_Unlock", calls[q].filename, calls[q].index)
    /\ UNCHANGED <<nontable, indexmap, mu, returned>>

\* insert: return index, and the deferred mu.Unlock()
insert_Unlock(q) ==
    /\ calls[q].pc = "insert_Unlock"
    /\ mu' = [mu EXCEPT !.writer = 0]
    /\ Done(q, "insert", calls[q].filename, calls[q].index)
    /\ UNCHANGED <<nontable, namelist, indexmap>>

\* lookup(index): index -= 1; mu.RLock()
lookup_RLock(q) ==
    /\ calls[q].pc = "idle"
    /\ mu.writer = 0
    /\ \E index \in TableIndices : Continue(q, "lookup_index", "", dec32(index))
    /\ mu' = [mu EXCEPT !.readers = @ \cup {q}]
    /\ UNCHANGED <<nontable, namelist, indexmap, returned>>

\* lookup: if index < uint32(len(namelist)) { return namelist[index] }; return ""
lookup_index(q) ==
    /\ calls[q].pc = "lookup_index"
    /\ LET index == calls[q].index
       IN Continue(q, "lookup_RUnlock",
                   IF below(index, Len(namelist)) THEN namelist[index + 1] ELSE "",
                   index)
    /\ UNCHANGED <<nontable, namelist, indexmap, mu, returned>>

\* lookup: the deferred mu.RUnlock(); the call is recorded with its argument
lookup_RUnlock(q) ==
    /\ calls[q].pc = "lookup_RUnlock"
    /\ mu' = [mu EXCEPT !.readers = @ \ {q}]
    /\ Done(q, "lookup", calls[q].filename, calls[q].index + 1)
    /\ UNCHANGED <<nontable, namelist, indexmap>>

(***************************************************************************)
(* Scopes and symbols (package types).  A Scope and a Symbol are referred  *)
(* to by number, 0 being the nil pointer; elems is the map from the names  *)
(* to the symbols, empty when it is nil.                                   *)
(***************************************************************************)
Scopes == 1..MaxScopes

Syms == 1..MaxSyms

\* Symbol.name
symname(sym) == IF sym <= 2 THEN "a" ELSE "b"

NewScope(parent, pos_, end) == [parent |-> parent, elems |-> <<>>, pos |-> pos_, end |-> end]

\* Scope.Len
ScopeLen(s) == Cardinality(DOMAIN scopes[s].elems)

\* Scope.Lookup
Lookup(s, nm) == IF nm \in DOMAIN scopes[s].elems THEN scopes[s].elems[nm] ELSE 0

ScopeInit ==
    /\ scopes = [s \in Scopes |-> NewScope(s - 1, NoPos, NoPos)]
    /\ symscope = [sym \in Syms |-> 0]
    /\ alt = 0
    /\ inserts = <<>>
    /\ contained = Nil

(***************************************************************************)
(* The universe (universe.go).  Init runs initTypes, initConsts and        *)
(* initBuiltins, each declaration of theirs being a step; after it, more   *)
(* symbols may be inserted into the Universe.  A failed debug.Assert and   *)
(* base.Fatalf exit the program.                                           *)
(***************************************************************************)
symUsed == "symUsed"
symConst == "symConst"
symStatic == "symStatic"
symBuiltin == "symBuiltin"

BuiltinTypeof == 1
BuiltinSizeof == 2

\* what Symbol.extra holds: a Value (of the Type t if it is a type), a
\* Builtin, or nil
ExtraValue(v, t) == [is |-> "Value", v |-> v, t |-> t, builtin |-> 0]
ExtraBuiltin(b) == [is |-> "Builtin", v |-> Undefined, t |-> 0, builtin |-> b]
ExtraNil == [is |-> "nil", v |-> Undefined, t |-> 0, builtin |-> 0]

\* MakeType: typeValue{t}, or Undefined for nil
MakeType(t) == IF t = 0 THEN ExtraValue(Undefined, 0) ELSE ExtraValue(typeValue, t)

Symbol(nm, pos_, typ, scope, extra, flags) ==
    [name |-> nm, pos |-> pos_, typ |-> typ, scope |-> scope, extra |-> extra, flags |-> flags]

Type(kind) == [kind |-> kind, sym |-> 0]

\* the calls of decl in initTypes, initConsts and initBuiltins
TypeDecls ==
    <<[kind |-> TVOID, name |-> "void"], [kind |-> TBOOL, name |-> "bool"],
      [kind |-> TINT8, name |-> "int8"], [kind |-> TINT16, name |-> "int16"],
      [kind |-> TINT32, name |-> "int32"], [kind |-> TINT64, name |-> "int64"],
      [kind |-> TINTPTR, name |-> "intptr"], [kind |-> TUINT8, name |-> "uint8"],
      [kind |-> TUINT16, name |-> "uint16"], [kind |-> TUINT32, name |-> "uint32"],
      [kind |-> TUINT64, name |-> "uint64"], [kind |-> TUINTPTR, name |-> "uintptr"],
      [kind |-> TFLOAT32, name |-> "float32"], [kind |-> TFLOAT64, name |-> "float64"]>>
ConstDecls ==
    <<[kind |-> TBOOL, name |-> "false", val |-> MakeBool(FALSE)],
      [kind |-> TBOOL, name |-> "true", val |-> MakeBool(TRUE)]>>
BuiltinDecls ==
    <<[builtin |-> BuiltinTypeof, name |-> "typeof"],
      [builtin |-> BuiltinSizeof, name |-> "sizeof"]>>

\* the elements of a sequence
Range_(q) == { q[i] : i \in DOMAIN q }

At_(fn, i) == [fn |-> fn, i |-> i]

UniverseIdle ==
    /\ PtrSize = 0
    /\ Universe = <<>>
    /\ Types = [k \in 0..(NBASIC - 1) |-> 0]
    /\ symbols = <<>>
    /\ typs = <<>>
    /\ upc = At_("idle", 0)

\* Scope.Lookup and Scope.Insert on a Scope that is not in scopes: the
\* symbol found, and the Scope after the insertion of the symbol sym named nm
Scope_Lookup(sc, nm) == IF nm \in DOMAIN sc.elems THEN sc.elems[nm] ELSE 0
Scope_Insert(sc, sym, nm) ==
    IF Scope_Lookup(sc, nm) = 0
    THEN [sc EXCEPT !.elems = [n \in DOMAIN @ \cup {nm} |-> IF n = nm THEN sym ELSE @[n]]]
    ELSE sc

\* the Symbols after Universe.Insert of the new symbol sym
Inserted(sym) ==
    Append(symbols, IF Scope_Lookup(Universe[1], sym.name) = 0 /\ sym.scope = 0
                    THEN [sym EXCEPT !.scope = 1]
                    ELSE sym)

\* Init: the test of PtrSize and Universe = NewScope(nil, src.NoPos, src.NoPos)
types_Init ==
    /\ upc.fn = "Init"
    /\ IF PtrSize = 0
       THEN upc' = At_("exit", 2) /\ UNCHANGED Universe
       ELSE upc' = At_("initTypes", 0) /\ Universe' = <<NewScope(0, NoPos, NoPos)>>
    /\ UNCHANGED <<PtrSize, Types, symbols, typs>>
    /\ UNCHANGED nonuniverse

\* initTypes: the type "type", up to the definition of decl
initTypes_type ==
    /\ upc = At_("initTypes", 0)
    /\ LET ttype == Len(typs) + 1
           sym == Len(symbols) + 1
       IN  /\ typs' = Append(typs, [Type(TTYPE) EXCEPT !.sym = sym])
           /\ symbols' = Inserted(Symbol("type", NoPos, ttype, 0, MakeType(ttype),
                                         {symUsed, symConst, symStatic}))
           /\ Universe' = <<Scope_Insert(Universe[1], sym, "type")>>
           /\ Types' = [Types EXCEPT ![TTYPE] = ttype]
    /\ upc' = At_("initTypes", 1)
    /\ UNCHANGED PtrSize
    /\ UNCHANGED nonuniverse

\* the place after the i-th of n calls of decl in fn
After_(fn, i, n, then) == IF i < n THEN At_(fn, i + 1) ELSE then

\* initTypes: a call decl(kind, name)
initTypes_decl ==
    /\ upc.fn = "initTypes" /\ upc.i >= 1
    /\ LET d == TypeDecls[upc.i]
           typ == Len(typs) + 1
           sym == Len(symbols) + 1
       IN  IF d.kind < NBASIC /\ Scope_Lookup(Universe[1], d.name) = 0
           THEN /\ typs' = Append(typs, [Type(d.kind) EXCEPT !.sym = sym])
                /\ symbols' = Inserted(Symbol(d.name, NoPos, typ, 0, MakeType(typ),
                                              {symUsed, symConst, symStatic}))
                /\ Universe' = <<Scope_Insert(Universe[1], sym, d.name)>>
                /\ Types' = [Types EXCEPT ![d.kind] = typ]
                /\ upc' = After_("initTypes", upc.i, Len(TypeDecls), At_("initConsts", 1))
           ELSE /\ upc' = At_("exit", 2)
                /\ UNCHANGED <<Universe, Types, symbols, typs>>
    /\ UNCHANGED PtrSize
    /\ UNCHANGED nonuniverse

\* initConsts: a call decl(kind, name, val)
initConsts_decl ==
    /\ upc.fn = "initConsts"
    /\ LET d == ConstDecls[upc.i]
           sym == Len(symbols) + 1
       IN  IF /\ d.kind < NBASIC
              /\ Kind(d.val) # TUNDEF
              /\ Scope_Lookup(Universe[1], d.name) = 0
           THEN /\ symbols' = Inserted(Symbol(d.name, NoPos, Types[d.kind], 0,
                                              ExtraValue(d.val, 0),
                                              {symUsed, symConst, symStatic}))
                /\ Universe' = <<Scope_Insert(Universe[1], sym, d.name)>>
                /\ upc' = After_("initConsts", upc.i, Len(ConstDecls), At_("initBuiltins", 1))
           ELSE /\ upc' = At_("exit", 2)
                /\ UNCHANGED <<Universe, symbols>>
    /\ UNCHANGED <<PtrSize, Types, typs>>
    /\ UNCHANGED nonuniverse

\* initBuiltins: a call decl(builtin, name)
initBuiltins_decl ==
    /\ upc.fn = "initBuiltins"
    /\ LET d == BuiltinDecls[upc.i]
           sym == Len(symbols) + 1
       IN  IF Scope_Lookup(Universe[1], d.name) = 0
           THEN /\ symbols' = Inserted(Symbol(d.name, NoPos, 0, 0, ExtraBuiltin(d.builtin),
                                              {symUsed, symConst, symStatic, symBuiltin}))
                /\ Universe' = <<Scope_Insert(Universe[1], sym, d.name)>>
                /\ upc' = After_("initBuiltins", upc.i, Len(BuiltinDecls), At_("done", 0))
           ELSE /\ upc' = At_("exit", 2)
                /\ UNCHANGED <<Universe, symbols>>
    /\ UNCHANGED <<PtrSize, Types, typs>>
    /\ UNCHANGED nonuniverse

\* after Init: Universe.Insert of a new Symbol named nm of the type Types[kind]
Universe_Insert(nm, kind) ==
    /\ upc.fn = "done" /\ upc.i < MaxDecls
    /\ symbols' = Inserted(Symbol(nm, NoPos, Types[kind], 0, ExtraNil, {}))
    /\ Universe' = <<Scope_Insert(Universe[1], Len(symbols) + 1, nm)>>
    /\ upc' = At_("done", upc.i + 1)
    /\ UNCHANGED <<PtrSize, Types, typs>>
    /\ UNCHANGED nonuniverse

(***************************************************************************)
(* The source at the level of bytes (source.go): a buffer filled from an   *)
(* io.Reader, read one character at a time.  A byte slice is a sequence of *)
(* numbers below 256, buf[i] of the source being element i + 1.  The       *)
(* buffer sizes of nextSize are scaled down to MinSize and MaxDouble.  An  *)
(* error is "nil", io.EOF ("EOF"), io.ErrNoProgress ("ErrNoProgress") or   *)
(* an error of the reader's own ("errX").                                  *)
(***************************************************************************)
sentinel == 128

linebase == 1

colbase == 1

\* the Read attempts of one fill
fillReads == 10

\* unicode/utf8
UTFMax == 4

RuneError == 65533

BOM == 65279

\* bs[lo:hi]
bytes(bs, lo, hi) == SubSeq(bs, lo + 1, hi)

\* make([]byte, n)
make(n) == [i \in 1..n |-> 0]

\* copy(dst, from), from being no longer than dst
copy(dst, from) == [i \in 1..Len(dst) |-> IF i <= Len(from) THEN from[i] ELSE dst[i]]

\* utf8: the length of the encoding that the byte b0 starts and the range of
\* its second byte, length 1 with an empty range for a byte that starts none
first(b0) ==
    CASE b0 < 128 -> [size |-> 1, lo |-> 0, hi |-> 255]
      [] b0 \in 194..223 -> [size |-> 2, lo |-> 128, hi |-> 191]
      [] b0 = 224 -> [size |-> 3, lo |-> 160, hi |-> 191]
      [] b0 \in 225..236 \cup 238..239 -> [size |-> 3, lo |-> 128, hi |-> 191]
      [] b0 = 237 -> [size |-> 3, lo |-> 128, hi |-> 159]
      [] b0 = 240 -> [size |-> 4, lo |-> 144, hi |-> 191]
      [] b0 \in 241..243 -> [size |-> 4, lo |-> 128, hi |-> 191]
      [] b0 = 244 -> [size |-> 4, lo |-> 128, hi |-> 143]
      [] OTHER -> [size |-> 1, lo |-> 1, hi |-> 0]

\* a continuation byte
cont(c) == c \in 128..191

\* utf8.FullRune: pb begins with a whole encoding, or with an invalid one
FullRune(pb) ==
    /\ Len(pb) > 0
    /\ \/ Len(pb) >= first(pb[1]).size
       \/ Len(pb) > 1 /\ pb[2] \notin first(pb[1]).lo..first(pb[1]).hi
       \/ Len(pb) > 2 /\ ~cont(pb[3])

\* utf8.DecodeRune of a slice that is not empty: the character and its width
DecodeRune(pb) ==
    IF pb[1] < 128 THEN <<pb[1], 1>>
    ELSE IF first(pb[1]).size = 1 \/ Len(pb) < first(pb[1]).size
    THEN <<RuneError, 1>>
    ELSE IF pb[2] \notin first(pb[1]).lo..first(pb[1]).hi
    THEN <<RuneError, 1>>
    ELSE IF first(pb[1]).size = 2
    THEN <<(pb[1] % 32) * 64 + (pb[2] % 64), 2>>
    ELSE IF ~cont(pb[3])
    THEN <<RuneError, 1>>
    ELSE IF first(pb[1]).size = 3
    THEN <<(pb[1] % 16) * 4096 + (pb[2] % 64) * 64 + (pb[3] % 64), 3>>
    ELSE IF ~cont(pb[4])
    THEN <<RuneError, 1>>
    ELSE <<(pb[1] % 8) * 262144 + (pb[2] % 64) * 4096 + (pb[3] % 64) * 64 + (pb[4] % 64), 4>>

\* nextSize
nextSize(size) ==
    IF size < MinSize THEN MinSize
    ELSE IF size <= MaxDouble THEN size * 2
    ELSE size + MaxDouble

\* source.init
source_init ==
    [buf |-> [make(nextSize(0)) EXCEPT ![1] = sentinel], ioerr |-> "nil",
     b |-> -1, r |-> 0, e |-> 0, line |-> 0, col |-> 0,
     ch |-> Rune[" "], chw |-> 0]

\* source.pos
source_pos(s) == [line |-> linebase + s.line, col |-> colbase + s.col]

\* source.start, source.stop, source.segment
start(s) == [s EXCEPT !.b = s.r - s.chw]

stop(s) == [s EXCEPT !.b = -1]

source_segment(s) == bytes(s.buf, s.b, s.r - s.chw)

\* a part of nextch done: the source it leaves and where nextch goes from it,
\* "return", "slow" (the general case), "redo", or the message it bails out with
Part(s, out) == [s |-> s, out |-> out]

\* nextch from redo: the position of the next character, and the fast case
nextch_fast(s) ==
    IF s.buf[s.r + 1] >= sentinel THEN Part([s EXCEPT !.ch = s.buf[s.r + 1]], "slow")
    ELSE Part([s EXCEPT !.ch = s.buf[s.r + 1], !.r = @ + 1, !.chw = 1],
                 IF s.buf[s.r + 1] = 0 THEN "invalid NUL character" ELSE "return")

nextch_redo(s) ==
    nextch_fast(IF s.ch = Rune["\n"] THEN [s EXCEPT !.line = @ + 1, !.col = 0]
                ELSE [s EXCEPT !.col = @ + s.chw])

\* nextch: the condition of the loop that fills the buffer
nextch_more(s) ==
    /\ s.e - s.r < UTFMax
    /\ ~FullRune(bytes(s.buf, s.r, s.e))
    /\ s.ioerr = "nil"

\* the text of ioerr.Error() behind "I/O error: "; calling it on nil panics
IOError(ioerr) ==
    CASE ioerr = "ErrNoProgress" -> "I/O error: multiple Read calls return no data or error"
      [] ioerr = "errX" -> "I/O error: errX"
      [] ioerr = "EOF" -> "I/O error: EOF"
      [] OTHER -> "nil pointer dereference"

\* nextch behind a character decoded as d: its errors, and the BOM
nextch_decoded(s, d) ==
    IF d = <<RuneError, 1>> THEN Part(s, "invalid UTF-8 encoding")
    ELSE IF d[1] # BOM THEN Part(s, "return")
    ELSE IF s.line > 0 \/ s.col > 0 THEN Part(s, "invalid BOM in the middle of the file")
    ELSE Part(s, "redo")

\* nextch_rune that forgets io.EOF once it has returned the end of the input
nextch_rune_ForgetsEOF(s) ==
    IF s.r = s.e
    THEN IF s.ioerr # "EOF" THEN Part(s, IOError(s.ioerr))
         ELSE Part([s EXCEPT !.ch = -1, !.chw = 0, !.ioerr = "nil"], "return")
    ELSE nextch_decoded([s EXCEPT !.ch = DecodeRune(bytes(s.buf, s.r, s.e))[1],
                                  !.chw = DecodeRune(bytes(s.buf, s.r, s.e))[2],
                                  !.r = @ + DecodeRune(bytes(s.buf, s.r, s.e))[2]],
                        DecodeRune(bytes(s.buf, s.r, s.e)))

\* nextch behind the loop: the end of the input, or the next character
nextch_rune(s) ==
    IF s.r = s.e
    THEN IF s.ioerr # "EOF" THEN Part(s, IOError(s.ioerr))
         ELSE Part([s EXCEPT !.ch = -1, !.chw = 0], "return")
    ELSE nextch_decoded([s EXCEPT !.ch = DecodeRune(bytes(s.buf, s.r, s.e))[1],
                                  !.chw = DecodeRune(bytes(s.buf, s.r, s.e))[2],
                                  !.r = @ + DecodeRune(bytes(s.buf, s.r, s.e))[2]],
                        DecodeRune(bytes(s.buf, s.r, s.e)))

\* fill_b that preserves the unread bytes only
fill_b_Unread(s) == s.r

\* fill: the content to preserve starts at fill_b; the buffer is grown, or
\* the content is moved down
fill_b(s) == IF s.b >= 0 THEN s.b ELSE s.r

fill_content(s) ==
    [s EXCEPT !.buf = IF (s.e - fill_b(s)) * 2 > Len(s.buf)
                      THEN copy(make(nextSize(Len(s.buf))), bytes(s.buf, fill_b(s), s.e))
                      ELSE IF fill_b(s) > 0
                      THEN copy(s.buf, bytes(s.buf, fill_b(s), s.e))
                      ELSE s.buf,
              !.b = IF s.b >= 0 THEN 0 ELSE s.b,
              !.r = s.r - fill_b(s),
              !.e = s.e - fill_b(s)]

\* the slice handed to Read
fill_space(s) == Len(s.buf) - 1 - s.e

\* Read may use all of the slice as scratch space
Scribbled(s, scratch) ==
    IF ~scratch THEN s
    ELSE [s EXCEPT !.buf = [i \in 1..Len(s.buf) |->
                               IF s.e < i /\ i < Len(s.buf) THEN 255 ELSE s.buf[i]]]

\* fill_read without the sentinel behind the chunk
fill_read_NoSentinel(s, chunk, ioerr) ==
    [s EXCEPT !.buf = [i \in 1..Len(s.buf) |->
                          IF s.e < i /\ i <= s.e + Len(chunk) THEN chunk[i - s.e]
                          ELSE s.buf[i]],
              !.e = @ + Len(chunk),
              !.ioerr = ioerr]

\* fill behind the Read that delivered chunk and the error ioerr
fill_read(s, chunk, ioerr) ==
    [s EXCEPT !.buf = [i \in 1..Len(s.buf) |->
                          IF s.e < i /\ i <= s.e + Len(chunk) THEN chunk[i - s.e]
                          ELSE IF i = s.e + Len(chunk) + 1 THEN sentinel
                          ELSE s.buf[i]],
              !.e = @ + Len(chunk),
              !.ioerr = ioerr]

\* fill_giveup that leaves ioerr alone
fill_giveup_NoError(s) ==
    [s EXCEPT !.buf[s.e + 1] = sentinel]

\* fill behind fillReads calls of Read that returned (0, nil)
fill_giveup(s) ==
    [s EXCEPT !.buf[s.e + 1] = sentinel, !.ioerr = "ErrNoProgress"]

\* source.fill, when stalls calls of Read return (0, nil) and the next one,
\* if fill makes it, delivers chunk and the error ioerr
fill(s, stalls, chunk, ioerr, scratch) ==
    IF stalls >= fillReads
    THEN fill_giveup(Scribbled(fill_content(s), scratch))
    ELSE fill_read(Scribbled(fill_content(s), scratch), chunk, ioerr)

\* what a Read into space bytes that makes progress can return
Responses(rd, space) ==
    {[n |-> n, err |-> "nil"] : n \in 1..Min(space, Len(rd.data))} \cup
    (IF Len(rd.data) <= space THEN {[n |-> Len(rd.data), err |-> rd.fate]} ELSE {})

\* the user of the source between two calls of next()
Ready ==
    [phase |-> "ready", pc |-> "", reads |-> 0, seg |-> <<>>, tok |-> "",
     line |-> 0, col |-> 0, bail |-> "", mark |-> -1]

ReaderIdle ==
    /\ srcbuf = source_init
    /\ reader = [data |-> <<>>, fate |-> "EOF"]
    /\ rpc = Ready
    /\ delivered = <<>>

isSpace(ch) == ch \in {Rune[" "], Rune["\t"], Rune["\n"], Rune["\r"]}

\* nextch goes where the outcome of one of its parts says
Arrive(res) ==
    /\ srcbuf' = res.s
    /\ rpc' = [rpc EXCEPT !.pc = IF res.out = "slow" THEN "loop" ELSE "",
                          !.reads = 0,
                          !.bail = IF res.out \in {"return", "slow"} THEN "" ELSE res.out]

\* scanner.next: stop(), in front of the loop over white space
next_stop ==
    /\ rpc.phase = "ready" /\ rpc.bail = ""
    /\ srcbuf' = stop(srcbuf)
    /\ rpc' = [rpc EXCEPT !.phase = "skip", !.mark = -1]
    /\ UNCHANGED <<reader, delivered>>
    /\ UNCHANGED nonreader

\* a call of nextch, by the loop over white space or inside a token, as far
\* as its fast case
call_nextch ==
    /\ rpc.bail = "" /\ rpc.pc = ""
    /\ \/ rpc.phase = "skip" /\ isSpace(srcbuf.ch)
       \/ rpc.phase = "token"
    /\ Arrive(nextch_redo(srcbuf))
    /\ UNCHANGED <<reader, delivered>>
    /\ UNCHANGED nonreader

\* nextch: a call of fill by its loop
call_fill ==
    /\ rpc.bail = "" /\ rpc.pc = "loop"
    /\ nextch_more(srcbuf)
    /\ \E stalls \in 0..fillReads, scratch \in BOOLEAN :
         IF stalls >= fillReads
         THEN /\ srcbuf' = fill(srcbuf, stalls, <<>>, "nil", scratch)
              /\ rpc' = [rpc EXCEPT !.reads = fillReads]
              /\ UNCHANGED <<reader, delivered>>
         ELSE \E resp \in Responses(reader, fill_space(fill_content(srcbuf))) :
                /\ srcbuf' = fill(srcbuf, stalls, SubSeq(reader.data, 1, resp.n),
                                  resp.err, scratch)
                /\ rpc' = [rpc EXCEPT !.reads = stalls + 1]
                /\ reader' = [reader EXCEPT
                                 !.data = SubSeq(@, resp.n + 1, Len(@))]
                /\ delivered' = delivered \o SubSeq(reader.data, 1, resp.n)
    /\ UNCHANGED nonreader

\* nextch behind its loop, up to its return or its bailout; behind a BOM at
\* the start of the input it starts over
nextch_return ==
    /\ rpc.bail = "" /\ rpc.pc = "loop"
    /\ ~nextch_more(srcbuf)
    /\ IF nextch_rune(srcbuf).out = "redo"
       THEN Arrive(nextch_redo(nextch_rune(srcbuf).s))
       ELSE Arrive(nextch_rune(srcbuf))
    /\ UNCHANGED <<reader, delivered>>
    /\ UNCHANGED nonreader

\* scanner.next behind the white space: the token starts at s.pos(), start(),
\* and _EOF is returned at the end of the input
next_start ==
    /\ rpc.bail = "" /\ rpc.pc = ""
    /\ rpc.phase = "skip" /\ ~isSpace(srcbuf.ch)
    /\ srcbuf' = start(srcbuf)
    /\ rpc' = [rpc EXCEPT !.phase = IF srcbuf.ch = -1 THEN "ready" ELSE "token",
                          !.tok = IF srcbuf.ch = -1 THEN "_EOF" ELSE "",
                          !.line = source_pos(srcbuf).line,
                          !.col = source_pos(srcbuf).col,
                          !.mark = Len(delivered) - (srcbuf.e - start(srcbuf).b)]
    /\ UNCHANGED <<reader, delivered>>
    /\ UNCHANGED nonreader

\* a call of segment by the function that scans the token
call_segment ==
    /\ rpc.bail = "" /\ rpc.pc = ""
    /\ rpc.phase = "token"
    /\ rpc' = [rpc EXCEPT !.seg = source_segment(srcbuf)]
    /\ UNCHANGED <<srcbuf, reader, delivered>>
    /\ UNCHANGED nonreader

\* scanner.next returns a token other than _EOF
next_return ==
    /\ rpc.bail = "" /\ rpc.pc = ""
    /\ rpc.phase = "token"
    /\ rpc' = [rpc EXCEPT !.phase = "ready", !.tok = "other"]
    /\ UNCHANGED <<srcbuf, reader, delivered>>
    /\ UNCHANGED nonreader

\* the parts that are run on their own only, at rest
ExtrasIdle == EscapeIdle /\ UniverseIdle /\ ReaderIdle

OthersInit == TableInit /\ ScopeInit /\ ValueIdle /\ ExtrasIdle

\* Scope.Insert that binds the name to sym whatever the scope holds
Insert_Overwrite(s, sym) ==
    /\ Len(inserts) < MaxInserts
    /\ inserts' = Append(inserts, [scope |-> s, sym |-> sym])
    /\ alt' = Lookup(s, symname(sym))
    /\ scopes' = [scopes EXCEPT ![s].elems =
                     [n \in DOMAIN @ \cup {symname(sym)} |->
                         IF n = symname(sym) THEN sym ELSE @[n]]]
    /\ symscope' = IF symscope[sym] = 0 THEN [symscope EXCEPT ![sym] = s] ELSE symscope
    /\ UNCHANGED <<nonscope, contained>>

\* Scope.Insert
Insert(s, sym) ==
    /\ Len(inserts) < MaxInserts
    /\ inserts' = Append(inserts, [scope |-> s, sym |-> sym])
    /\ alt' = Lookup(s, symname(sym))
    /\ IF Lookup(s, symname(sym)) = 0
       THEN /\ scopes' = [scopes EXCEPT ![s].elems =
                             [n \in DOMAIN @ \cup {symname(sym)} |->
                                 IF n = symname(sym) THEN sym ELSE @[n]]]
            /\ symscope' = IF symscope[sym] = 0
                           THEN [symscope EXCEPT ![sym] = s]
                           ELSE symscope
       ELSE UNCHANGED <<scopes, symscope>>
    /\ UNCHANGED <<nonscope, contained>>

\* Scope.Contains, as a function of the scope's bounds
contains(sc, pos_) ==
    Known(sc.pos) /\ Known(sc.end) /\ ~Before(pos_, sc.pos) /\ ~After(pos_, sc.end)

\* a call of Scope.Contains
Contains(s, pos_) ==
    /\ contained' = [node |-> "Contains", scope |-> s, pos |-> pos_,
                     result |-> contains(scopes[s], pos_)]
    /\ UNCHANGED <<nonscope, scopes, symscope, alt, inserts>>

(***************************************************************************)
(* The parser as a whole.                                                  *)
(***************************************************************************)
\* the shapes of the inputs: pre, then up to MaxFree free tokens, then post
Templates ==
    { [pre |-> <<>>, post |-> <<>>],
      [pre |-> <<Tk("_Var"), NameTok("a"), Tk("_Assign")>>, post |-> <<Tk("_Semi")>>],
      [pre |-> <<Tk("_Var"), NameTok("a"), Tk("_Assign"), NameTok("a"), StarTok, NameTok("a")>>,
       post |-> <<Tk("_Semi")>>],
      [pre |-> <<Tk("_Var"), NameTok("a"), Tk("_Assign"), Tk("_Proc"), Tk("_Lparen")>>,
       post |-> <<Tk("_Rparen"), Tk("_Semi")>>],
      [pre |-> <<Tk("_Var"), NameTok("a"), Tk("_Assign"), Tk("_Proc"), Tk("_Lparen"),
                 NameTok("a"), Tk("_Comma"), NameTok("a"), Tk("_Colon")>>,
       post |-> <<Tk("_Rparen"), Tk("_Semi")>>],
      [pre |-> <<Tk("_Const"), NameTok("a"), Tk("_Assign"), Tk("_Proc"), Tk("_Lparen"),
                 Tk("_Rparen"), Tk("_Lbrace")>>,
       post |-> <<Tk("_Semi"), Tk("_Rbrace"), Tk("_Semi")>>],
      [pre |-> <<Tk("_Var"), NameTok("a"), Tk("_Assign"), NameTok("a"), Tk("_Cond")>>,
       post |-> <<Tk("_Colon"), NameTok("a"), Tk("_Semi")>>],
      [pre |-> <<Tk("_Var"), NameTok("a"), Tk("_Colon"), Tk("_Lbrack")>>,
       post |-> <<NameTok("a"), Tk("_Semi")>>],
      [pre |-> <<Tk("_Const"), NameTok("a"), Tk("_Assign"), Tk("_Proc"), Tk("_Lparen"),
                 Tk("_Rparen"), Tk("_Lbrace"), Tk("_Var"), NameTok("a"), Tk("_Colon")>>,
       post |-> <<Tk("_Semi"), Tk("_Rbrace"), Tk("_Semi")>>],
      [pre |-> <<Tk("_Var"), NameTok("a"), Tk("_Assign"), Tk("_Lparen"), NameTok("a"),
                 Tk("_Rparen")>>,
       post |-> <<Tk("_Semi")>>] }

\* inputs without free tokens: `var a = (a) ? a : a;` and
\* `var a = a ? a : a ? a : a;`
CondInParens ==
    <<Tk("_Var"), NameTok("a"), Tk("_Assign"), Tk("_Lparen"), NameTok("a"), Tk("_Rparen"),
      Tk("_Cond"), NameTok("a"), Tk("_Colon"), NameTok("a"), Tk("_Semi")>>
CondInCond ==
    <<Tk("_Var"), NameTok("a"), Tk("_Assign"), NameTok("a"), Tk("_Cond"), NameTok("a"),
      Tk("_Colon"), NameTok("a"), Tk("_Cond"), NameTok("a"), Tk("_Colon"), NameTok("a"),
      Tk("_Semi")>>
Examples == {CondInParens, CondInCond}

\* the name argument of Parse; an empty name is allowed
Filenames == {"a.co", ""}

PInit ==
    /\ fname \in Filenames
    /\ p = [tok |-> "_", lit |-> "", kind |-> "", op |-> "0", prec |-> 0, line |-> 0, col |-> 0]
    /\ \/ \E tpl \in Templates : pre = tpl.pre /\ post = tpl.post /\ free = MaxFree
       \/ \E text \in Examples : pre = text /\ post = <<>> /\ free = 0
    /\ scanned = <<>>
    /\ stack = <<Frame("Parse", NoLocals)>>
    /\ ret = Nil
    /\ mode = "run"
    /\ payload = Nil
    /\ file = Nil
    /\ err = Nil
    /\ nerrors = 0
    /\ spin = 0
    /\ namelist = <<>>
    /\ scanner = source(<<>>)
    /\ OthersInit

PNext ==
    \/ Parse_call \/ Parse_return \/ CatchBailout
    \/ file_next \/ file_new \/ file_loop \/ file_append
    \/ decl_switch \/ decl_return
    \/ constDecl_want \/ constDecl_names \/ constDecl_type \/ constDecl_values
    \/ varDecl_want \/ varDecl_names \/ varDecl_type \/ varDecl_values
    \/ initialization_assign \/ initialization_return
    \/ annotationOrNil_colon \/ annotationOrNil_return
    \/ stmt_switch \/ stmt_return
    \/ simpleStmt_lhs \/ simpleStmt_switch \/ simpleStmt_assign
    \/ declStmt_decl \/ declStmt_return
    \/ blockStmt_want \/ blockStmt_loop \/ blockStmt_append
    \/ returnStmt_want \/ returnStmt_result \/ returnStmt_semi
    \/ expr_binary \/ expr_cond \/ expr_colon \/ expr_return
    \/ exprList_first \/ exprList_comma \/ exprList_more
    \/ binaryExpr_unary \/ binaryExpr_operand \/ binaryExpr_rhs
    \/ unaryExpr_switch \/ unaryExpr_postfix \/ unaryExpr_return
    \/ prefixUnary_switch \/ prefixUnary_return
    \/ postfixUnary_loop
    \/ primaryExpr_atom \/ primaryExpr_loop
    \/ atomExpr_call \/ atomExpr_check
    \/ atomExprOrNil_switch \/ atomExprOrNil_rparen \/ atomExprOrNil_cast
    \/ atomExprOrNil_proc \/ atomExprOrNil_body \/ atomExprOrNil_return
    \/ callExpr_want \/ callExpr_first \/ callExpr_more
    \/ indexExpr_want \/ indexExpr_rbrack
    \/ name_ \/ nameList_first \/ nameList_more
    \/ type__call \/ type__check
    \/ typeOrNil_switch \/ typeOrNil_const \/ typeOrNil_pointer \/ typeOrNil_option
    \/ typeOrNil_rbrack \/ typeOrNil_array \/ typeOrNil_return
    \/ procType_want \/ procType_params \/ procType_result
    \/ paramList_want \/ paramList_empty \/ paramList_loop \/ paramList_field
    \/ paramList_mixed
    \/ field_const \/ field_type \/ field_named

Init == PInit

Next == PNext

Spec == Init /\ [][Next]_vars

\* the parser never suspends: a step that can be taken is taken
FairSpec == Spec /\ WF_vars(Next)

(***************************************************************************)
(* The scanner run on its own: next() is called on a source text until it  *)
(* delivers _EOF or bails out.  The texts are short sequences over two     *)
(* sets of characters, one for comments and punctuation and one for number *)
(* literals.                                                               *)
(***************************************************************************)
TextChars == {"/", "*", "=", "\n", "a", "."}

NumberChars == {"0", "8", "_", ".", "e", "F"}

NumberPrefixes == { <<>>, <<"0", "x">> }

\* the scanner before its first call, on a text t of characters of chars
\* behind the prefix px
OnText(px, chars) ==
    \E k \in 0..MaxText : \E t \in [1..k -> chars] : scanner = source(Str(px \o t))

ScanInit ==
    /\ \/ OnText(<<>>, TextChars)
       \/ \E px \in NumberPrefixes : OnText(px, NumberChars)
    /\ fname = "a.co"
    /\ p = [tok |-> "_", lit |-> "", kind |-> "", op |-> "0", prec |-> 0, line |-> 0, col |-> 0]
    /\ pre = <<>>
    /\ post = <<>>
    /\ free = 0
    /\ scanned = <<>>
    /\ stack = <<>>
    /\ ret = Nil
    /\ mode = "run"
    /\ payload = Nil
    /\ file = Nil
    /\ err = Nil
    /\ nerrors = 0
    /\ spin = 0
    /\ namelist = <<>>
    /\ OthersInit

\* one call of scanner.next() by the scanner's user
scanner_next ==
    /\ mode = "run"
    /\ stack = <<>>
    /\ Ok(scanner)
    /\ scanner.tok # "_EOF"
    /\ LET s == next(scanner)
       IN /\ scanner' = s
          /\ IF Ok(s)
             THEN /\ scanned' = Append(scanned, Token(s))
                  /\ UNCHANGED <<mode, payload, nerrors, namelist>>
             ELSE /\ mode' = "panic"
                  /\ payload' = Error(MakePos(namelist, fname, s.bail.line, s.bail.col),
                                      s.bail.Msg)
                  /\ nerrors' = Min(nerrors + 1, 2)
                  /\ namelist' = insertTable(namelist, fname)
                  /\ UNCHANGED scanned
    /\ UNCHANGED <<others, fname, p, pre, free, post, stack, ret, file, err, spin>>

ScanNext == scanner_next

ScanSpec == ScanInit /\ [][ScanNext]_vars

(***************************************************************************)
(* The file table on its own: MaxProcs goroutines call insert and lookup   *)
(* in any interleaving.                                                    *)
(***************************************************************************)
\* the parser and the scanner at rest
ParserIdle ==
    /\ fname = "a.co"
    /\ p = [tok |-> "_", lit |-> "", kind |-> "", op |-> "0", prec |-> 0, line |-> 0, col |-> 0]
    /\ pre = <<>>
    /\ post = <<>>
    /\ free = 0
    /\ scanned = <<>>
    /\ stack = <<>>
    /\ ret = Nil
    /\ mode = "run"
    /\ payload = Nil
    /\ file = Nil
    /\ err = Nil
    /\ nerrors = 0
    /\ spin = 0
    /\ scanner = source(<<>>)

TableSpecInit ==
    /\ ParserIdle
    /\ namelist = <<>>
    /\ OthersInit

TableNext ==
    \E q \in Procs :
        \/ insert_empty(q) \/ insert_Lock(q) \/ insert_index(q) \/ insert_append(q)
        \/ insert_Unlock(q)
        \/ lookup_RLock(q) \/ lookup_index(q) \/ lookup_RUnlock(q)

TableSpec == TableSpecInit /\ [][TableNext]_vars

(***************************************************************************)
(* Scope.Insert on its own: up to MaxInserts calls, of any symbol into any *)
(* scope.                                                                  *)
(***************************************************************************)
InsertInit ==
    /\ ParserIdle
    /\ namelist = <<>>
    /\ OthersInit

InsertNext == \E s \in Scopes, sym \in Syms : Insert(s, sym)

InsertSpec == InsertInit /\ [][InsertNext]_vars

(***************************************************************************)
(* Scope.Contains on its own: the outermost scope has any two positions as *)
(* its bounds and is asked about any position.                             *)
(***************************************************************************)
\* the unknown position and the start of each line of two files
Positions ==
    {NoPos} \cup { [index |-> i, lico |-> lico(l, 1)] : i \in 1..2, l \in 1..MaxLine }

ContainsInit ==
    /\ ParserIdle
    /\ namelist = <<"a.co", "b.co">>
    /\ TableInit
    /\ \E pos_, end \in Positions :
           scopes = [s \in Scopes |-> IF s = 1 THEN NewScope(0, pos_, end)
                                               ELSE NewScope(s - 1, NoPos, NoPos)]
    /\ symscope = [sym \in Syms |-> 0]
    /\ alt = 0
    /\ inserts = <<>>
    /\ contained = Nil
    /\ ValueIdle
    /\ ExtrasIdle

ContainsNext == \E s \in Scopes, pos_ \in Positions : Contains(s, pos_)

ContainsSpec == ContainsInit /\ [][ContainsNext]_vars

(***************************************************************************)
(* Constant values on their own: any input value as the receiver of up to  *)
(* MaxCalls calls.                                                         *)
(***************************************************************************)
ValueInit ==
    /\ ParserIdle
    /\ namelist = <<>>
    /\ TableInit
    /\ ScopeInit
    /\ \E i \in DOMAIN Inputs : value = Inputs[i]
    /\ result = Nil
    /\ ncalls = 0
    /\ ExtrasIdle

ValueNext ==
    \/ \E op \in Operators : call_Unary(op)
    \/ \E op \in Operators, i \in DOMAIN Inputs : call_Binary(op, Inputs[i])
    \/ \E to \in Kinds, c \in OutOfRange : call_Convert(to, c)

ValueSpec == ValueInit /\ [][ValueNext]_vars

(***************************************************************************)
(* The escape mechanism on its own: a goroutine whose first frame is       *)
(* running.                                                                *)
(***************************************************************************)
EscapeInit ==
    /\ ParserIdle
    /\ namelist = <<>>
    /\ TableInit
    /\ ScopeInit
    /\ ValueIdle
    /\ callstack = <<PlainFrame>>
    /\ panicking = NoPanic
    /\ events = <<>>
    /\ UniverseIdle
    /\ ReaderIdle

EscapeNext ==
    \/ call
    \/ \E nil \in BOOLEAN : defer_CatchBailout(nil)
    \/ \E pl \in Payloads : base_Bailout(pl)
    \/ \E pl \in Payloads : panic(ordinary(pl))
    \/ return_
    \/ unwind
    \/ unwind_CatchBailout

EscapeSpec == EscapeInit /\ [][EscapeNext]_vars

(***************************************************************************)
(* The universe on its own: Init is called with any PtrSize, and up to     *)
(* MaxDecls symbols are inserted into the Universe after it.               *)
(***************************************************************************)
UniverseInit ==
    /\ ParserIdle
    /\ namelist = <<>>
    /\ TableInit
    /\ ScopeInit
    /\ ValueIdle
    /\ EscapeIdle
    /\ ReaderIdle
    /\ PtrSize \in {0, 4, 8}
    /\ Universe = <<>>
    /\ Types = [k \in 0..(NBASIC - 1) |-> 0]
    /\ symbols = <<>>
    /\ typs = <<>>
    /\ upc = At_("Init", 0)

UniverseNext ==
    \/ types_Init
    \/ initTypes_type
    \/ initTypes_decl
    \/ initConsts_decl
    \/ initBuiltins_decl
    \/ \E nm \in {"int8", "x"}, kind \in {TTYPE, TINT32} : Universe_Insert(nm, kind)

UniverseSpec == UniverseInit /\ [][UniverseNext]_vars

(***************************************************************************)
(* The source on its own: init, and then calls of next() that read an      *)
(* input of up to MaxInput bytes from a reader that delivers it in chunks  *)
(* of any size, stalls at will, and ends it with io.EOF or an error of its *)
(* own.  What the functions that scan a token do between start() and their *)
(* return is any number of calls of nextch and of segment.                 *)
(***************************************************************************)
InputBytes == {Rune["a"], Rune["\n"], 195, 169}

SpecialInputs ==
    { <<0>>, <<Rune["a"], 0>>, <<255, Rune["a"]>>,
      <<239, 187, 191, Rune["a"]>>, <<239, 187, 191, 195>>,
      <<Rune["a"], 239, 187, 191>>, <<226, 130, 172>>, <<240, 159, 152, 128>> }

ReaderInit ==
    /\ ParserIdle
    /\ namelist = <<>>
    /\ TableInit
    /\ ScopeInit
    /\ ValueIdle
    /\ EscapeIdle
    /\ UniverseIdle
    /\ srcbuf = source_init
    /\ \E fate \in {"EOF", "errX"} :
         \/ \E k \in 0..MaxInput : \E data \in [1..k -> InputBytes] :
              reader = [data |-> data, fate |-> fate]
         \/ \E data \in SpecialInputs : reader = [data |-> data, fate |-> fate]
    /\ rpc = Ready
    /\ delivered = <<>>

ReaderNext ==
    \/ next_stop
    \/ call_nextch
    \/ call_fill
    \/ nextch_return
    \/ next_start
    \/ call_segment
    \/ next_return

ReaderSpec == ReaderInit /\ [][ReaderNext]_vars

(***************************************************************************)
(* Reading a syntax tree.                                                  *)
(***************************************************************************)
Range(q) == { q[i] : i \in 1..Len(q) }

Children(x) ==
    CASE x.node = "File" -> Range(x.DeclList)
      [] x.node \in {"ConstDecl", "VarDecl"} -> Range(x.NameList) \cup {x.Type, x.Values}
      [] x.node = "ProcExpr" -> {x.Type, x.Body}
      [] x.node = "Operation" -> {x.Lhs, x.Rhs}
      [] x.node = "TernaryExpr" -> {x.Cond, x.A, x.B}
      [] x.node = "CallExpr" -> {x.Proc} \cup Range(x.ArgList)
      [] x.node = "IndexExpr" -> {x.X, x.Index}
      [] x.node = "CastExpr" -> {x.Type, x.X}
      [] x.node = "ListExpr" -> Range(x.List)
      [] x.node \in {"PointerType", "OptionType"} -> {x.Elem}
      [] x.node = "ArrayType" -> {x.Len, x.Elem}
      [] x.node = "ProcType" -> Range(x.ParamList) \cup {x.Result}
      [] x.node = "Field" -> {x.Name, x.Type}
      [] x.node = "BlockStmt" -> Range(x.StmtList)
      [] x.node = "ExprStmt" -> {x.X}
      [] x.node = "DeclStmt" -> {x.D}
      [] x.node = "AssignStmt" -> {x.Lhs, x.Rhs}
      [] x.node = "ReturnStmt" -> {x.Result}
      [] OTHER -> {}

RECURSIVE Nodes(_)
\* every node of the tree below x, x included
Nodes(x) == IF IsNil(x) THEN {} ELSE {x} \cup UNION { Nodes(c) : c \in Children(x) }

\* Parse has returned a File
Parsed == mode = "returned" /\ ~IsNil(file)

(***************************************************************************)
(* C1.  Parse terminates on every finite input; in particular every        *)
(* iteration of the loop of postfixUnary makes progress (consumes a token) *)
(* or leaves the loop.                                                     *)
(***************************************************************************)
C1_PostfixUnaryProgress ==
    [][At("postfixUnary", 0) => (scanned' # scanned \/ stack' # stack \/ mode' # mode)]_vars

(***************************************************************************)
(* C2.  Parse is all-or-nothing: after an error it returns a nil File and  *)
(* the (first and only) error; without one a non-nil File and a nil error; *)
(* never a File together with an error.                                    *)
(***************************************************************************)
C2_AllOrNothing ==
    mode = "returned" =>
        /\ nerrors <= 1
        /\ nerrors = 1 => IsNil(file) /\ err = payload /\ ~IsNil(err)
        /\ nerrors = 0 => ~IsNil(file) /\ IsNil(err)
        /\ ~(~IsNil(file) /\ ~IsNil(err))

\* an error raised deep in the recursion (in paramList) has ended the parse
C2_Witness ==
    /\ mode = "returned"
    /\ nerrors = 1
    /\ IsNil(file)
    /\ ~IsNil(err)
    /\ err.Msg = "expected a comma or \")\""

(***************************************************************************)
(* C3.  binaryExpr implements precedence climbing: an operand followed by  *)
(* a binary operator yields an Operation with that operator and the        *)
(* operand as its Lhs (unless the scan of a later token fails).            *)
(***************************************************************************)
\* the operand x has been parsed and the binary operator o is the current token
OperandThenOperator(o) ==
    /\ At("postfixUnary", 0)
    /\ p.tok = "_Operator" /\ p.op = o.op /\ p.prec = o.prec

\* binaryExpr has emitted the Operation for o and is parsing its right operand
OperationEmitted(o) ==
    \E i \in 1..Len(stack) :
        /\ stack[i].fn = "binaryExpr" /\ stack[i].pc = 2
        /\ stack[i].l.t.Op = o.op
        /\ ~IsNil(stack[i].l.t.Lhs)

\* the binary operators among the tokens the token source chooses from
BinaryOperators ==
    { o \in ScanOperators \cap Alphabet : o.prec > 0 /\ o.op \notin {"Inc", "Dec"} }

C3_BinaryYieldsOperation ==
    \A o \in BinaryOperators :
        OperandThenOperator(o) ~> (OperationEmitted(o) \/ mode # "run")

(***************************************************************************)
(* Reading the scanner: the state after the first call of next() on the    *)
(* text, and what that call left behind.                                   *)
(***************************************************************************)
FirstCall == Len(scanned) + (IF Ok(scanner) THEN 0 ELSE 1) = 1

StartsWith(t, cs) == Len(t) >= Len(cs) /\ SubSeq(t, 1, Len(cs)) = Str(cs)

\* the result of a call of next(): the token and the offset of its first
\* character behind the first skipped characters of the text, or the error
Outcome(s, skipped) ==
    IF Ok(s)
    THEN [ok |-> TRUE, token |-> Token(s), start |-> s.b - skipped, msg |-> ""]
    ELSE [ok |-> FALSE, token |-> Token(source(<<>>)), start |-> 0, msg |-> s.bail.Msg]

\* the result of the first call of next() on the text t
Scan(t) == Outcome(next(source(t)), 0)

From(t, i) == SubSeq(t, i, Len(t))

Accepted(kind) ==
    /\ Ok(scanner)
    /\ Token(scanner) = [tok |-> "_Literal", lit |-> scanner.buf, kind |-> kind,
                         op |-> "0", prec |-> 0]

(***************************************************************************)
(* C4: block comments nest.  A text that starts with a block comment is    *)
(* scanned as the text behind the comment if every opener of the comment   *)
(* has its closer, and fails with "comment not terminated" otherwise.      *)
(***************************************************************************)
\* the number of characters up to the closer that brings the nesting level
\* lev, counted from t[i] on, to 0; 0 if there is none
RECURSIVE CommentEnd(_, _, _)
CommentEnd(t, i, lev) ==
    IF lev = 0 THEN i - 1
    ELSE IF i >= Len(t) THEN 0
    ELSE IF <<t[i], t[i + 1]>> = Str(<<"/", "*">>) THEN CommentEnd(t, i + 2, lev + 1)
    ELSE IF <<t[i], t[i + 1]>> = Str(<<"*", "/">>) THEN CommentEnd(t, i + 2, lev - 1)
    ELSE CommentEnd(t, i + 1, lev)

C4_BlockCommentsNest ==
    (FirstCall /\ StartsWith(scanner.buf, <<"/", "*">>)) =>
        LET end == CommentEnd(scanner.buf, 3, 1)
        IN IF end = 0
           THEN ~Ok(scanner) /\ scanner.bail.Msg = "comment not terminated"
           ELSE Outcome(scanner, end) = Scan(From(scanner.buf, end + 1))

(***************************************************************************)
(* C5: a line comment runs to the end of its line.  A text that starts     *)
(* with "//" is scanned as the text from the next newline on, whatever the *)
(* comment holds.                                                          *)
(***************************************************************************)
LineEnd(t) ==
    IF \E i \in 1..Len(t) : t[i] = Rune["\n"]
    THEN CHOOSE i \in 1..Len(t) : t[i] = Rune["\n"] /\ \A j \in 1..(i - 1) : t[j] # Rune["\n"]
    ELSE Len(t) + 1

C5_LineCommentToEndOfLine ==
    (FirstCall /\ StartsWith(scanner.buf, <<"/", "/">>)) =>
        LET nl == LineEnd(scanner.buf)
        IN Outcome(scanner, nl - 1) = Scan(From(scanner.buf, nl))

(***************************************************************************)
(* C6: ".*" is the single token Operator(Deref); a "." followed neither by *)
(* "*" nor by a decimal digit is the token Dot.                            *)
(***************************************************************************)
C6_DerefIsOneToken ==
    (FirstCall /\ StartsWith(scanner.buf, <<".">>)) =>
        IF StartsWith(scanner.buf, <<".", "*">>)
        THEN /\ Ok(scanner)
             /\ scanner.tok = "_Operator"
             /\ scanner.op = "Deref"
             /\ scanner.r - scanner.chw = 2
        ELSE (Len(scanner.buf) >= 2 /\ isDecimal(scanner.buf[2]))
             \/ (Ok(scanner) /\ scanner.tok = "_Dot" /\ scanner.r - scanner.chw = 1)

(***************************************************************************)
(* C7: a literal written in base 10 with a decimal point or an exponent is *)
(* a Float literal, also when its integer part is the single digit 0.      *)
(***************************************************************************)
AllDecimal(t) == \A i \in 1..Len(t) : isDecimal(t[i])

\* "0", or digits that do not start with 0
DecimalInt(t) == t # <<>> /\ AllDecimal(t) /\ (Len(t) > 1 => t[1] # Rune["0"])

Exponent(t) == Len(t) >= 2 /\ t[1] = Rune["e"] /\ AllDecimal(Tail(t))

\* integer part, then a point and a fraction, or an exponent, or both
DecimalFloat(t) ==
    \E i \in 1..Len(t) :
        /\ DecimalInt(SubSeq(t, 1, i - 1))
        /\ \/ Exponent(From(t, i))
           \/ /\ t[i] = Rune["."]
              /\ \E j \in (i + 1)..(Len(t) + 1) :
                    /\ AllDecimal(SubSeq(t, i + 1, j - 1))
                    /\ (j = Len(t) + 1 \/ Exponent(From(t, j)))

C7_DecimalPointPromotes ==
    (FirstCall /\ DecimalFloat(scanner.buf)) => Accepted("Float")

(***************************************************************************)
(* C8: underscore separators.  As stated: "0xFF_FF" is accepted, "0x_FF"   *)
(* is rejected at the underscore with "'_' must separate successive        *)
(* digits", and a literal holding "_" is accepted if and only if           *)
(* invalidSep returns -1 for it.                                           *)
(***************************************************************************)
SepMsg == "'_' must separate successive digits"

HasSep(t) == \E i \in 1..Len(t) : t[i] = Rune["_"]

C8_SeparatorsAsStated ==
    FirstCall =>
        /\ scanner.buf = Str(<<"0", "x", "F", "F", "_", "F", "F">>) => Accepted("Int")
        /\ scanner.buf = Str(<<"0", "x", "_", "F", "F">>) =>
              /\ ~Ok(scanner)
              /\ scanner.bail.Msg = SepMsg
              /\ scanner.bail.col = 3
        /\ (Ok(scanner) /\ scanner.tok = "_Literal") => invalidSep(scanner.lit) = -1
        /\ (scanner.tok = "_Literal" /\ HasSep(scanner.lit)
            /\ invalidSep(scanner.lit) = -1) => Ok(scanner)

(***************************************************************************)
(* C8, amended: "0xFF_FF" and "0x_FF" are both accepted as Int literals    *)
(* (the prefix counts as a digit); every accepted literal has invalidSep   *)
(* = -1; a literal with invalidSep >= 0 is rejected, and the error "'_'    *)
(* must separate successive digits" is reported exactly at the index       *)
(* invalidSep returns.                                                     *)
(***************************************************************************)
C8_Separators ==
    FirstCall =>
        /\ scanner.buf = Str(<<"0", "x", "F", "F", "_", "F", "F">>) => Accepted("Int")
        /\ scanner.buf = Str(<<"0", "x", "_", "F", "F">>) => Accepted("Int")
        /\ (Ok(scanner) /\ scanner.tok = "_Literal") => invalidSep(scanner.lit) = -1
        /\ (scanner.tok = "_Literal" /\ invalidSep(scanner.lit) >= 0) => ~Ok(scanner)
        /\ (~Ok(scanner) /\ scanner.bail.Msg = SepMsg) =>
              /\ scanner.tok = "_Literal"
              /\ invalidSep(scanner.lit) >= 0
              /\ scanner.bail.line = scanner.line
              /\ scanner.bail.col = scanner.col + invalidSep(scanner.lit)

\* "0x_FF" has been scanned and accepted
C8_Witness ==
    /\ FirstCall
    /\ scanner.buf = Str(<<"0", "x", "_", "F", "F">>)
    /\ Accepted("Int")

\* a literal has been rejected for its separator
C8_WitnessRejected ==
    /\ FirstCall
    /\ ~Ok(scanner)
    /\ scanner.bail.Msg = SepMsg
    /\ invalidSep(scanner.lit) = Len(scanner.lit) - 1

(***************************************************************************)
(* C9.  A File returned by Parse holds only ConstDecl and VarDecl          *)
(* declarations (also below DeclStmt), every ConstDecl has Values, every   *)
(* VarDecl has a Type or Values, every ListExpr has at least 2 items.      *)
(***************************************************************************)
IsDecl(d) == d.node \in {"ConstDecl", "VarDecl"}

C9_WellFormedFile ==
    Parsed =>
        /\ \A d \in Range(file.DeclList) : IsDecl(d)
        /\ \A n \in Nodes(file) :
            /\ n.node = "DeclStmt" => IsDecl(n.D)
            /\ n.node = "ConstDecl" => ~IsNil(n.Values)
            /\ n.node = "VarDecl" => ~IsNil(n.Type) \/ ~IsNil(n.Values)
            /\ n.node = "ListExpr" => Len(n.List) >= 2

\* a returned File with a declaration inside a DeclStmt, a VarDecl without
\* Values and a ListExpr
C9_Witness ==
    /\ Parsed
    /\ \E n \in Nodes(file) : n.node = "DeclStmt"
    /\ \E n \in Nodes(file) : n.node = "VarDecl" /\ IsNil(n.Values)

C9_WitnessList ==
    /\ Parsed
    /\ \E n \in Nodes(file) : n.node = "ListExpr"

(***************************************************************************)
(* C10.  A parameter list is entirely named or entirely unnamed: paramList *)
(* returns only such lists, every Field of which has a Type; a list with   *)
(* a named and an unnamed field gives the one error "got mixed named and   *)
(* unnamed parameters" at the position of the opening "(" of that list.    *)
(***************************************************************************)
Homogeneous(list) ==
    \/ \A i \in 1..Len(list) : ~IsNil(list[i].Name)
    \/ \A i \in 1..Len(list) : IsNil(list[i].Name)

Mixed == "got mixed named and unnamed parameters"

C10_ParamListHomogeneous ==
    \* paramList has just returned to procType
    /\ At("procType", 1) =>
        /\ Homogeneous(ret.list)
        /\ \A i \in 1..Len(ret.list) : ret.list[i].node = "Field" /\ ~IsNil(ret.list[i].Type)
    \* a complete list that is mixed does not return
    /\ At("paramList", 4) /\ ~Homogeneous(top.l.list) => top.l.named /\ top.l.unnamed
    \* the error is raised by the paramList of the mixed list, at its "("
    /\ mode = "panic" /\ payload.Msg = Mixed =>
        /\ nerrors = 1
        /\ top.fn = "paramList" /\ ~Homogeneous(top.l.list)
        /\ payload.Pos = top.l.pos
        /\ Known(payload.Pos) <=> fname # ""
        /\ \E i \in 1..Len(scanned) :
            /\ scanned[i].tok = "_Lparen"
            /\ payload.Pos.lico = lico(1, i)
            /\ top.l.list[1].pos.lico = lico(1, i + 1)
    /\ Parsed =>
        \A n \in Nodes(file) : n.node = "ProcType" => Homogeneous(n.ParamList)

\* the mixed list of proc(a, a: a) has been reported
C10_Witness ==
    /\ mode = "returned"
    /\ ~IsNil(err)
    /\ err.Msg = Mixed
    /\ Len(scanned) >= 10

\* a named list has been returned in a File
C10_WitnessNamed ==
    /\ Parsed
    /\ \E n \in Nodes(file) :
        /\ n.node = "ProcType" /\ Len(n.ParamList) >= 1
        /\ \A i \in 1..Len(n.ParamList) : ~IsNil(n.ParamList[i].Name)

(***************************************************************************)
(* C11.  In every tree Parse returns, for every filename argument (the     *)
(* empty string included), every node's Pos is known and lies between the  *)
(* start position of the File and File.EOF.                                *)
(***************************************************************************)
C11_PositionsKnownAndInFile ==
    Parsed =>
        \A n \in Nodes(file) :
            /\ Known(n.pos)
            /\ Known(file.EOF)
            /\ ~Before(n.pos, file.pos)
            /\ ~After(n.pos, file.EOF)

(***************************************************************************)
(* C12.  The file table is a stable bijection under every interleaving of  *)
(* concurrent calls of insert and lookup: a non-empty name gets an index   *)
(* >= 1 that never changes, two names never share an index, a repeated     *)
(* insert grows nothing, lookup(insert(f)) = f from the return of insert   *)
(* on, insert("") = 0, lookup(0) = "", and namelist and indexmap have the  *)
(* same length whenever the lock is not held.                              *)
(***************************************************************************)
Inserts == { r \in returned : r.op = "insert" }

Lookups == { r \in returned : r.op = "lookup" }

\* lookup(index) on the table as it is now
lookupNow(index) ==
    IF below(dec32(index), Len(namelist)) THEN namelist[dec32(index) + 1] ELSE ""

C12_StableBijection ==
    /\ \A r \in Inserts :
        /\ r.filename = "" <=> r.index = 0
        /\ r.filename # "" => r.index >= 1 /\ lookupNow(r.index) = r.filename
    /\ \A r1, r2 \in Inserts : r1.filename = r2.filename <=> r1.index = r2.index
    /\ \A r \in Lookups :
        /\ r.index = 0 => r.filename = ""
        /\ r.filename # "" => lookupNow(r.index) = r.filename
        /\ \A i \in Inserts : i.index = r.index /\ r.filename # "" => i.filename = r.filename
    /\ lookupNow(0) = ""
    /\ \A i, j \in 1..Len(namelist) : namelist[i] = namelist[j] => i = j
    /\ mu.writer = 0 =>
        /\ Len(namelist) = Cardinality(DOMAIN indexmap)
        /\ \A i \in 1..Len(namelist) : mapIndex(namelist[i]) = i

\* two names are in the table, both inserts have returned, a lookup has
\* returned the second name, and a repeated insert has found its name while
\* another goroutine waits or reads
C12_Witness ==
    /\ Len(namelist) = 2
    /\ \E r1, r2 \in Inserts : r1.index = 1 /\ r2.index = 2
    /\ \E r \in Lookups : r.index = 2 /\ r.filename = namelist[2]
    /\ \E r \in Lookups : r.index = 0
    /\ \E r \in Inserts : r.filename = ""
    /\ \E q \in Procs : calls[q].pc = "insert_Unlock" /\ calls[q].index = 1

(***************************************************************************)
(* C13.  Scope.Insert keeps the first binding: when the scope holds a      *)
(* symbol of that name it returns that symbol and changes neither elems    *)
(* nor sym.scope; otherwise it adds sym, returns nil and sets sym.scope to *)
(* the scope if sym had none.  So every name maps to the first symbol      *)
(* inserted under it and Len() is the number of distinct names inserted.   *)
(***************************************************************************)
\* the calls of Insert so far that named scope s and a symbol called nm
InsertsOf(s, nm) ==
    { i \in 1..Len(inserts) : inserts[i].scope = s /\ symname(inserts[i].sym) = nm }

First(S) == CHOOSE i \in S : \A j \in S : i <= j

\* the calls that found the name free: they added their symbol
Adding(sym) ==
    { i \in 1..Len(inserts) :
        inserts[i].sym = sym /\ i = First(InsertsOf(inserts[i].scope, symname(sym))) }

C13_InsertKeepsFirst ==
    /\ \A s \in Scopes :
        /\ DOMAIN scopes[s].elems = { symname(sym) : sym \in { y \in Syms : InsertsOf(s, symname(y)) # {} } }
        /\ ScopeLen(s) = Cardinality({ n \in {"a", "b"} : InsertsOf(s, n) # {} })
        /\ \A n \in DOMAIN scopes[s].elems : Lookup(s, n) = inserts[First(InsertsOf(s, n))].sym
    /\ \A sym \in Syms :
        symscope[sym] = IF Adding(sym) = {} THEN 0 ELSE inserts[First(Adding(sym))].scope
    /\ inserts # <<>> =>
        LET last == inserts[Len(inserts)]
            same == InsertsOf(last.scope, symname(last.sym))
        IN alt = IF First(same) = Len(inserts) THEN 0 ELSE inserts[First(same)].sym

\* symbol 2 was refused by scope 1, which holds symbol 1 under the same
\* name; symbol 1 was then added to scope 2 and still belongs to scope 1
C13_Witness ==
    /\ Len(inserts) >= 3
    /\ Lookup(1, "a") = 1
    /\ Lookup(2, "a") = 1
    /\ symscope[1] = 1
    /\ symscope[2] = 0
    /\ \E i \in 1..Len(inserts) : inserts[i] = [scope |-> 1, sym |-> 2]
    /\ inserts[Len(inserts)] = [scope |-> 1, sym |-> 2]
    /\ alt = 1

(***************************************************************************)
(* C14.  Scope.Contains(p) is true if and only if the scope is bounded     *)
(* (pos and end known) and pos <= p <= end in source order; it is false    *)
(* for an unknown p and for a p of another file than the scope's.          *)
(***************************************************************************)
\* a <= b in source order: both known, in one file, a not after b
SourceOrder(a, b) == Known(a) /\ Known(b) /\ a.index = b.index /\ a.lico <= b.lico

C14_ContainsIffWithin ==
    ~IsNil(contained) =>
        LET sc == scopes[contained.scope]
        IN contained.result <=>
               /\ Known(sc.pos) /\ Known(sc.end)
               /\ SourceOrder(sc.pos, contained.pos)
               /\ SourceOrder(contained.pos, sc.end)

(***************************************************************************)
(* C15.  Neq is the logical negation of Eql on integers: for all integer   *)
(* values v, w (each an Int or a Uint), v.Binary(Neq, w) = Bool(not b)     *)
(* where v.Binary(Eql, w) = Bool(b).                                       *)
(***************************************************************************)
IsInteger(v) == v.type \in {"int", "uint"}

C15_NeqNegatesEql ==
    (result.node = "Binary" /\ result.op = "Neq" /\ IsInteger(result.v) /\ IsInteger(result.w))
        => /\ result.r.type = "bool"
           /\ Binary(result.v, "Eql", result.w).type = "bool"
           /\ result.r.b = ~Binary(result.v, "Eql", result.w).b

(***************************************************************************)
(* C16.  Mixed signed/unsigned comparisons are mathematically correct: for *)
(* an Int v, a Uint w and a comparison op, v.Binary(op, w) and             *)
(* w.Binary(op, v) are the Bool of comparing the two as mathematical       *)
(* integers, a negative Int being less than every Uint.                    *)
(***************************************************************************)
\* the integer of the int64 a is less than, and equal to, that of the uint64 b
IntBelowUint(a, b) == sign(a) \/ ult(a, b)
IntIsUint(a, b) == ~sign(a) /\ a = b

\* m op n for numbers m, n of which less tells m < n and same tells m = n
Compares(op, less, same) ==
    CASE op = "Eql" -> same
      [] op = "Neq" -> ~same
      [] op = "Lss" -> less
      [] op = "Leq" -> less \/ same
      [] op = "Gtr" -> ~less /\ ~same
      [] op = "Geq" -> ~less

C16_MixedComparisons ==
    (result.node = "Binary" /\ result.op \in Comparisons) =>
        /\ (result.v.type = "int" /\ result.w.type = "uint") =>
              /\ result.r.type = "bool"
              /\ result.r.b = Compares(result.op, IntBelowUint(result.v.x, result.w.x),
                                       IntIsUint(result.v.x, result.w.x))
        /\ (result.v.type = "uint" /\ result.w.type = "int") =>
              /\ result.r.type = "bool"
              /\ result.r.b = Compares(result.op,
                                       ~IntBelowUint(result.w.x, result.v.x)
                                           /\ ~IntIsUint(result.w.x, result.v.x),
                                       IntIsUint(result.w.x, result.v.x))

(***************************************************************************)
(* C17.  Unary(op) returns Undefined for every operator that the           *)
(* receiver's kind does not support: Int, Uint and Float for LNot, Deref   *)
(* and the binary-only operators, Float for Not as well, Bool for all but  *)
(* LNot.  It never returns the operand for an unsupported operator.        *)
(***************************************************************************)
Supported(type) ==
    CASE type \in {"int", "uint"} -> {"Not", "Inc", "Dec", "Add", "Sub"}
      [] type = "float" -> {"Inc", "Dec", "Add", "Sub"}
      [] type = "bool" -> {"LNot"}
      [] OTHER -> {}

C17_UnaryUnsupportedIsUndefined ==
    (/\ result.node = "Unary"
     /\ result.v.type \in {"int", "uint", "float", "bool"}
     /\ result.op \notin Supported(result.v.type))
        => result.r.type = "undef"

(***************************************************************************)
(* C18.  For a numeric receiver v and a numeric w equal to zero,           *)
(* v.Binary(Div, w) and v.Binary(Rem, w) return Undefined and never abort; *)
(* for an Int or Uint v and an Int w < 0, v.Binary(Shl, w) and             *)
(* v.Binary(Shr, w) return Undefined.                                      *)
(***************************************************************************)
IsNumeric(v) == v.type \in {"int", "uint", "float"}
IsZeroValue(w) == IF w.type = "float" THEN IsZero(w.f) ELSE IsInteger(w) /\ w.x = word(0)

C18_ZeroDivisorAndNegativeShift ==
    result.node = "Binary" =>
        /\ (/\ result.op \in {"Div", "Rem"}
            /\ IsNumeric(result.v)
            /\ IsZeroValue(result.w)) => result.r.type = "undef"
        /\ (/\ result.op \in {"Shl", "Shr"}
            /\ IsInteger(result.v)
            /\ result.w.type = "int"
            /\ sign(result.w.x)) => result.r.type = "undef"

\* MakeInt(1).Binary(Div, MakeInt(0)) has returned Undefined
C18_Witness ==
    /\ result.node = "Binary"
    /\ result.op = "Div"
    /\ result.v.type = "int" /\ result.v.x = word(1)
    /\ result.w.type = "int" /\ result.w.x = word(0)
    /\ result.r.type = "undef"

(***************************************************************************)
(* C19.  Integer conversion keeps values in the range of the target width: *)
(* for an integer v made by MakeInt or MakeUint and any calls of Convert,  *)
(* and a fixed-width integer kind k of n bits, v.Convert(k) has kind k and *)
(* a payload equal to v's value modulo 2^n, within 0 .. 2^n - 1 for an     *)
(* unsigned k and -2^(n-1) .. 2^(n-1) - 1 for a signed k.                  *)
(***************************************************************************)
FixedWidth == {TINT8, TINT16, TINT32, TINT64, TUINT8, TUINT16, TUINT32, TUINT64}

\* x and y agree modulo 2^n
SameLow(x, y, n) == \A i \in 1..(n \div 8) : x[i] = y[i]

\* x, read as a uint64 and as an int64, is a number of n bits
InUnsigned(x, n) == \A i \in (n \div 8 + 1)..8 : x[i] = 0
InSigned(x, n) == \A i \in (n \div 8 + 1)..8 : x[i] = IF x[n \div 8] >= 128 THEN 255 ELSE 0

C19_ConvertKeepsRange ==
    (result.node = "Convert" /\ IsInteger(result.v) /\ result.to \in FixedWidth) =>
        /\ result.r.type = IF IsSigned(result.to) THEN "int" ELSE "uint"
        /\ Kind(result.r) = result.to
        /\ SameLow(result.r.x, result.v.x, kindbits(result.to))
        /\ IF IsSigned(result.to)
           THEN InSigned(result.r.x, kindbits(result.to))
           ELSE InUnsigned(result.r.x, kindbits(result.to))

(***************************************************************************)
(* C20.  Convert is total: for every value v and every Kind k,             *)
(* v.Convert(k) returns a Value, of kind k or Undefined, and never aborts. *)
(***************************************************************************)
C20_ConvertIsTotal ==
    result.node = "Convert" =>
        /\ result.r.type # "panic"
        /\ result.r.type = "undef" \/ Kind(result.r) = result.to

(***************************************************************************)
(* C21.  Width selection of integer constants: every Int returned by       *)
(* MakeInt, intValue.Unary or an arithmetic intValue.Binary has bits = 32  *)
(* iff -2^31 <= x <= 2^31 - 1 and bits = 64 otherwise; every Uint returned *)
(* by MakeUint, uintValue.Unary or an arithmetic uintValue.Binary has      *)
(* bits = 32 iff x <= 2^32 - 1 and bits = 64 otherwise; and with an        *)
(* integer as the other operand the result has the receiver's signedness.  *)
(***************************************************************************)
Arithmetic == {"Add", "Sub", "Mul", "Div", "Rem", "Or", "Xor", "And", "Shl", "Shr"}

\* the width that the payload of the integer r asks for
WidthOf(r) ==
    IF r.type = "int"
    THEN IF InSigned(r.x, 32) THEN 32 ELSE 64
    ELSE IF InUnsigned(r.x, 32) THEN 32 ELSE 64

C21_WidthSelection ==
    /\ (ncalls = 0 /\ IsInteger(value)) => value.bits = WidthOf(value)
    /\ (result.node = "Unary" /\ IsInteger(result.v)) =>
            /\ result.r.type = result.v.type
            /\ result.r.bits = WidthOf(result.r)
    /\ (/\ result.node = "Binary"
        /\ result.op \in Arithmetic
        /\ IsInteger(result.v)
        /\ IsInteger(result.w)) =>
            /\ result.r.type \in {result.v.type, "undef"}
            /\ result.op \in {"Add", "Sub", "Mul", "Or", "Xor", "And"} =>
                    result.r.type = result.v.type
            /\ IsInteger(result.r) => result.r.bits = WidthOf(result.r)

\* --v of the Int 1<<31, of 64 bits, has returned 1<<31 - 1 with 32 bits
C21_Witness ==
    /\ result.node = "Unary"
    /\ result.op = "Dec"
    /\ result.v.type = "int" /\ result.v.bits = 64
    /\ result.r = intValue(MaxInt32, 32)

\* a Uint plus an Int has returned a Uint of 64 bits
C21_WitnessWide ==
    /\ result.node = "Binary"
    /\ result.op = "Add"
    /\ result.v.type = "uint" /\ result.v.bits = 32
    /\ result.w.type = "int"
    /\ result.r.type = "uint" /\ result.r.bits = 64

(***************************************************************************)
(* C22.  The escape mechanism: a Bailout(payload) raised at any call depth *)
(* below a deferred CatchBailout(handler) is stopped at the nearest such   *)
(* catcher, the handler is called exactly once, with that payload, and the *)
(* catcher's caller resumes; a panic that is not a bail-out is never       *)
(* handed to a handler, is stopped by no catcher and unwinds the whole     *)
(* stack.                                                                  *)
(***************************************************************************)
\* the innermost frame of stk that has deferred CatchBailout, 0 if none has
Nearest(stk) ==
    IF \E i \in DOMAIN stk : stk[i].deferred
    THEN CHOOSE i \in DOMAIN stk :
            stk[i].deferred /\ \A j \in DOMAIN stk : j > i => ~stk[j].deferred
    ELSE 0

\* the panic raised by events[i] is over
Over(i) == i < Len(events) /\ (~panicking.active \/ \E j \in (i + 1)..Len(events) : events[j].ev = "raise")

\* the events that follow events[i] up to the next panic
Following(i) ==
    LET later == { j \in (i + 1)..Len(events) : events[j].ev = "raise" }
        last == IF later = {} THEN Len(events) ELSE (CHOOSE j \in later : \A k \in later : j <= k) - 1
    IN  SubSeq(events, i + 1, last)

BailoutStopsAtCatcher(i) ==
    LET e == events[i]
        k == Nearest(e.stack)
        f == Following(i)
    IN  (e.bail /\ k > 0 /\ e.stack[k].handler) =>
            /\ Len(f) <= 2
            /\ Len(f) >= 1 => f[1] = [e EXCEPT !.ev = "handler", !.stack = SubSeq(e.stack, 1, k)]
            /\ Len(f) >= 2 => f[2] = [e EXCEPT !.ev = "resume", !.stack = SubSeq(e.stack, 1, k - 1)]
            /\ (Len(f) < 2) => (i = Len(events) - Len(f) /\ panicking = bailout(e.payload))
            /\ (Len(f) = 2 /\ i + 2 = Len(events)) => ~panicking.active

OrdinaryPanicUnwinds(i) ==
    LET e == events[i]
        f == Following(i)
    IN  ~e.bail =>
            /\ \A j \in DOMAIN f : f[j].ev \in {"pass", "crash"} /\ f[j].payload = e.payload
            /\ panicking = ordinary(e.payload) \/ Len(events) > i + Len(f)
            /\ callstack = <<>> =>
                    /\ f # <<>> /\ f[Len(f)].ev = "crash"
                    /\ Len(f) = 1 + Cardinality({ j \in DOMAIN e.stack : e.stack[j].deferred })

C22_EscapeMechanism ==
    \A i \in DOMAIN events :
        events[i].ev = "raise" => BailoutStopsAtCatcher(i) /\ OrdinaryPanicUnwinds(i)

\* a bail-out raised two calls below its catcher has been handled, and the
\* catcher's caller has resumed
C22_Witness ==
    \E i \in DOMAIN events :
        /\ events[i].ev = "raise" /\ events[i].bail
        /\ Len(events[i].stack) = 3
        /\ Nearest(events[i].stack) = 1
        /\ Len(events) = i + 2
        /\ events[i + 2].ev = "resume"

\* a panic that is no bail-out has passed a catcher and crashed the goroutine
C22_WitnessOrdinary ==
    \E i \in DOMAIN events :
        /\ events[i].ev = "raise" /\ ~events[i].bail
        /\ Nearest(events[i].stack) > 0
        /\ events[Len(events)].ev = "crash"
        /\ callstack = <<>>

(***************************************************************************)
(* C23.  After Init with PtrSize # 0, every symbol of the Universe that    *)
(* declares a type ("type", "void", "bool", "int8" ... "float64") has      *)
(* typ.kind = TTYPE, an extra that is the type-value of the declared Type, *)
(* the flags Used, Const and Static, and is the sym of the declared Type;  *)
(* Types[k] is the declared Type of kind k.                                *)
(***************************************************************************)
DeclaredTypes == Range_(TypeDecls) \cup {[kind |-> TTYPE, name |-> "type"]}

\* the symbol named d.name declares the Type Types[d.kind], but for the kind
\* of the symbol's own type
DeclaresType(d) ==
    LET sym == Scope_Lookup(Universe[1], d.name)
        typ == Types[d.kind]
    IN  /\ sym # 0
        /\ typ # 0
        /\ typs[typ].kind = d.kind
        /\ typs[typ].sym = sym
        /\ symbols[sym].name = d.name
        /\ symbols[sym].extra = ExtraValue(typeValue, typ)
        /\ symbols[sym].flags = {symUsed, symConst, symStatic}
        /\ symbols[sym].typ # 0

C23_TypeSymbols ==
    upc.fn = "done" =>
        \A d \in DeclaredTypes :
            /\ DeclaresType(d)
            /\ typs[symbols[Scope_Lookup(Universe[1], d.name)].typ].kind = TTYPE

(***************************************************************************)
(* C24.  `?` is told apart by its place in the grammar: behind a           *)
(* completely parsed left operand, a parenthesized one such as `(c)`       *)
(* included, it introduces a ternary, so that `(c) ? a : b` yields         *)
(* TernaryExpr{Cond: c, A: a, B: b}, and it never starts an OptionType     *)
(* that is the operand of a cast of `(c)`; ternaries nest to the right:    *)
(* `a ? b : c ? d : e` is Ternary(a, b, Ternary(c, d, e)).                 *)
(***************************************************************************)
\* the input is text: nothing of it is left to be chosen
IsToken(t) == t # EOFTok
InputIs(text) == free = 0 /\ SelectSeq(scanned \o pre \o post, IsToken) = text

\* the column of the node x, which is the number of its first token
ColOf(x) == x.pos.lico % (2^colbits)

NameAt(x, col) == x.node = "Name" /\ ColOf(x) = col

\* the Values of the first declaration of the file
FirstValues == file.DeclList[1].Values

C24_CondIsTernary ==
    /\ Parsed => \A n \in Nodes(file) : n.node = "CastExpr" => n.X.node # "OptionType"
    /\ (mode = "returned" /\ InputIs(CondInParens)) =>
            /\ Parsed
            /\ FirstValues.node = "TernaryExpr"
            /\ NameAt(FirstValues.Cond, 5)
            /\ NameAt(FirstValues.A, 8)
            /\ NameAt(FirstValues.B, 10)
    /\ (mode = "returned" /\ InputIs(CondInCond)) =>
            /\ Parsed
            /\ FirstValues.node = "TernaryExpr"
            /\ NameAt(FirstValues.Cond, 4)
            /\ NameAt(FirstValues.A, 6)
            /\ FirstValues.B.node = "TernaryExpr"
            /\ NameAt(FirstValues.B.Cond, 8)
            /\ NameAt(FirstValues.B.A, 10)
            /\ NameAt(FirstValues.B.B, 12)

(***************************************************************************)
(* C25.  A `*` that follows a complete left operand of a binary expression *)
(* is a multiplication, Operation{Op: Mul, Lhs, Rhs}, also behind a        *)
(* parenthesized operand: `(a) * b` is Mul(a, b); it introduces a          *)
(* PointerType in type position only, so no cast of `(a)` has a            *)
(* PointerType that starts behind the `)` as its operand.                  *)
(***************************************************************************)
\* `var a = a * a;` and `var a = (a) * a;`
StarAfterName ==
    <<Tk("_Var"), NameTok("a"), Tk("_Assign"), NameTok("a"), StarTok, NameTok("a"), Tk("_Semi")>>
StarAfterParens ==
    <<Tk("_Var"), NameTok("a"), Tk("_Assign"), Tk("_Lparen"), NameTok("a"), Tk("_Rparen"),
      StarTok, NameTok("a"), Tk("_Semi")>>

\* x is the product of the names at the columns lhs and rhs
IsMul(x, lhs, rhs) ==
    /\ x.node = "Operation"
    /\ x.Op = "Mul"
    /\ NameAt(x.Lhs, lhs)
    /\ NameAt(x.Rhs, rhs)

C25_StarIsMul ==
    /\ Parsed => \A n \in Nodes(file) : n.node = "CastExpr" => n.X.node # "PointerType"
    /\ (mode = "returned" /\ InputIs(StarAfterName)) =>
            Parsed /\ IsMul(FirstValues, 4, 6)
    /\ (mode = "returned" /\ InputIs(StarAfterParens)) =>
            Parsed /\ IsMul(FirstValues, 5, 8)

(***************************************************************************)
(* C29.  For every BlockStmt of a File that Parse returns, for a file name *)
(* that is not empty, Closing is the known position of the `}` that closes *)
(* the block and does not come before the block's Pos, the position of its *)
(* `{`.                                                                    *)
(***************************************************************************)
C29_ClosingOfBlock ==
    (Parsed /\ fname # "") =>
        \A n \in Nodes(file) :
            n.node = "BlockStmt" =>
                /\ Known(n.Closing)
                /\ ~Before(n.Closing, n.pos)
                /\ scanned[ColOf(n)].tok = "_Lbrace"
                /\ ColOf([pos |-> n.Closing]) \in DOMAIN scanned
                /\ scanned[ColOf([pos |-> n.Closing])].tok = "_Rbrace"

(***************************************************************************)
(* C26: the indices of the source.  After init and after every call of     *)
(* nextch, fill, start or stop, whatever the input is and however the      *)
(* reader splits it, -1 <= b <= r <= e < len(buf) and buf[e] is the        *)
(* sentinel; and where segment() is called, b >= 0 and b <= r - chw, so    *)
(* that buf[b : r-chw] is within the buffer.                               *)
(***************************************************************************)
IndexInvariant(s) ==
    /\ -1 <= s.b /\ s.b <= s.r /\ s.r <= s.e /\ s.e < Len(s.buf)
    /\ s.buf[s.e + 1] = sentinel

\* segment() may be called here
InToken == rpc.bail = "" /\ rpc.pc = "" /\ rpc.phase = "token"

C26_IndexInvariant ==
    /\ IndexInvariant(srcbuf)
    /\ InToken => /\ 0 <= srcbuf.b
                  /\ srcbuf.b <= srcbuf.r - srcbuf.chw
                  /\ srcbuf.r - srcbuf.chw <= Len(srcbuf.buf)

\* a segment of three bytes has been taken from a buffer that fill has grown
\* around it, and the reader has used its slice as scratch space
C26_Witness ==
    /\ InToken
    /\ Len(srcbuf.buf) > MinSize
    /\ srcbuf.b = 0
    /\ Len(rpc.seg) = 3
    /\ \E i \in 1..Len(srcbuf.buf) : srcbuf.buf[i] = 255

\* the content has been moved down in the buffer with no segment active
C26_WitnessMoved ==
    /\ srcbuf.b = -1
    /\ srcbuf.r = 0 /\ srcbuf.e > 0
    /\ Len(delivered) > srcbuf.e
    /\ Len(srcbuf.buf) = MinSize

(***************************************************************************)
(* C27: the active segment survives refills.  A call of fill with b >= 0   *)
(* leaves the bytes buf[b : e] at buf[0 : e - b], whether it has grown the *)
(* buffer, moved the content down or left it in place; b becomes 0 and r   *)
(* and e are shifted by the same amount, e moving on by the bytes read.    *)
(* So segment() returns the bytes of the input from the character that     *)
(* start() was called at up to the current character, however the reader   *)
(* splits the input.                                                       *)
(***************************************************************************)
FillKeepsSegment ==
    (call_fill /\ srcbuf.b >= 0) =>
        /\ srcbuf'.b = 0
        /\ srcbuf'.r = srcbuf.r - srcbuf.b
        /\ srcbuf'.e = srcbuf.e - srcbuf.b + (Len(delivered') - Len(delivered))
        /\ bytes(srcbuf'.buf, 0, srcbuf.e - srcbuf.b)
               = bytes(srcbuf.buf, srcbuf.b, srcbuf.e)

\* the bytes of the input from the start of the segment up to the current
\* character
SinceStart ==
    SubSeq(delivered, rpc.mark + 1,
           Len(delivered) - (srcbuf.e - srcbuf.r) - srcbuf.chw)

C27_SegmentSurvives ==
    /\ [][FillKeepsSegment]_vars
    /\ [](InToken => source_segment(srcbuf) = SinceStart)

\* fill has just returned with a segment active that began inside the input
\* and of which it has kept two bytes or more, in a buffer of the first size
C27_Witness ==
    /\ rpc.phase = "token" /\ rpc.pc = "loop" /\ rpc.reads > 0
    /\ srcbuf.b = 0 /\ srcbuf.r >= 2
    /\ rpc.mark > 0
    /\ Len(srcbuf.buf) = MinSize

\* the same in a buffer that has been grown, with new bytes behind the segment
C27_WitnessGrown ==
    /\ rpc.phase = "token" /\ rpc.pc = "loop" /\ rpc.reads > 0
    /\ srcbuf.b = 0 /\ srcbuf.r >= 3 /\ srcbuf.e > srcbuf.r
    /\ Len(srcbuf.buf) > MinSize

\* a segment of two characters in two and three bytes has been returned
C27_WitnessSegment ==
    /\ InToken
    /\ rpc.seg = <<Rune["a"], 195, 169>>
    /\ rpc.seg = SinceStart
    /\ rpc.mark > 0

(***************************************************************************)
(* C28: a stalled reader cannot hang the scanner.  A call of fill makes at *)
(* most ten calls of Read and returns with more bytes or with an error,    *)
(* io.ErrNoProgress when every Read returned (0, nil); the loop of nextch  *)
(* is over then, and nextch bails out with "I/O error: ...".  An I/O error *)
(* is reported only when every byte delivered before it has been read, and *)
(* io.EOF is never reported as one.                                        *)
(***************************************************************************)
IOErrors == {IOError(ioerr) : ioerr \in {"nil", "EOF", "errX", "ErrNoProgress"}}

FillGivesUp ==
    call_fill =>
        /\ rpc'.reads \in 1..fillReads
        /\ Len(delivered') > Len(delivered) \/ srcbuf'.ioerr # "nil"
        /\ srcbuf'.ioerr = "ErrNoProgress" =>
               /\ rpc'.reads = fillReads
               /\ delivered' = delivered
        /\ srcbuf'.ioerr # "nil" => ~nextch_more(srcbuf')

ErrorAfterBytes ==
    rpc.bail \in IOErrors =>
        /\ srcbuf.r = srcbuf.e
        /\ rpc.bail = IOError(srcbuf.ioerr)
        /\ srcbuf.ioerr \in {"errX", "ErrNoProgress"}

\* nextch behind a fill that gave up bails out with the I/O error
StalledBailsOut ==
    (nextch_return /\ srcbuf.ioerr = "ErrNoProgress") =>
        rpc'.bail = IOError("ErrNoProgress")

C28_StalledReader ==
    /\ [][FillGivesUp]_vars
    /\ [][StalledBailsOut]_vars
    /\ []ErrorAfterBytes

\* C28 as the code has it: nextch behind a fill that gave up bails out, with
\* the I/O error when no unread byte is left, and with "invalid UTF-8
\* encoding" when the first bytes of a character are left unread
StalledBailsOutEither ==
    (nextch_return /\ srcbuf.ioerr = "ErrNoProgress") =>
        rpc'.bail = IF srcbuf.r = srcbuf.e THEN IOError("ErrNoProgress")
                    ELSE "invalid UTF-8 encoding"

C28_StalledReaderEither ==
    /\ [][FillGivesUp]_vars
    /\ [][StalledBailsOutEither]_vars
    /\ []ErrorAfterBytes

\* the reader has stalled behind two bytes or more, which have been read, and
\* nextch has bailed out with the I/O error
C28_Witness ==
    /\ rpc.bail = IOError("ErrNoProgress")
    /\ Len(delivered) >= 2
    /\ srcbuf.r = srcbuf.e
    /\ reader.data # <<>>

\* the reader has stalled behind the first byte of a character
C28_WitnessPartial ==
    /\ rpc.bail = "invalid UTF-8 encoding"
    /\ srcbuf.ioerr = "ErrNoProgress"
    /\ srcbuf.r = srcbuf.e

\* the reader's own error came with the last bytes, which have been read
C28_WitnessError ==
    /\ rpc.bail = IOError("errX")
    /\ Len(delivered) >= 2
    /\ srcbuf.line > 0

(***************************************************************************)
(* C30: the end of the input is stable.  Once nextch has returned with     *)
(* ch = -1 and chw = 0, every further call of nextch returns with the      *)
(* same and leaves (line, col) unchanged, the reader is not read again and *)
(* the buffer is not changed, and every further call of next() returns     *)
(* _EOF at the same position.                                              *)
(***************************************************************************)
\* nextch has returned the end of the input
Ended == rpc.pc = "" /\ srcbuf.ch = -1 /\ srcbuf.chw = 0

\* a call of nextch made at the end of the input has reached its loop
EndedInside ==
    /\ rpc.pc = "loop"
    /\ srcbuf.ioerr = "EOF" /\ srcbuf.r = srcbuf.e /\ srcbuf.chw = 0

EOFStable ==
    (Ended \/ EndedInside) =>
        /\ Ended' \/ EndedInside'
        /\ rpc'.bail = ""
        /\ srcbuf'.line = srcbuf.line /\ srcbuf'.col = srcbuf.col
        /\ srcbuf'.buf = srcbuf.buf
        /\ srcbuf'.r = srcbuf.r /\ srcbuf'.e = srcbuf.e
        /\ srcbuf'.ioerr = srcbuf.ioerr
        /\ reader' = reader /\ delivered' = delivered
        /\ ~call_fill

EOFToken ==
    /\ (Ended /\ next_start) =>
           /\ rpc'.tok = "_EOF" /\ rpc'.phase = "ready"
           /\ rpc'.line = linebase + srcbuf.line
           /\ rpc'.col = colbase + srcbuf.col
    /\ rpc.tok = "_EOF" =>
           /\ rpc'.tok = "_EOF"
           /\ rpc'.line = rpc.line /\ rpc'.col = rpc.col

C30_EOFStable ==
    /\ [][EOFStable]_vars
    /\ [][EOFToken]_vars
    /\ [](Ended => /\ srcbuf.ioerr = "EOF" /\ srcbuf.r = srcbuf.e
                   /\ reader.data = <<>>)

\* a further call of nextch is under way behind the end of an input of two
\* bytes or more with a newline
C30_Witness ==
    /\ EndedInside
    /\ rpc.phase = "token"
    /\ Len(delivered) >= 2
    /\ srcbuf.line > 0

\* a further call of next() is under way after next() has returned _EOF
C30_WitnessNext ==
    /\ Ended
    /\ rpc.tok = "_EOF" /\ rpc.phase = "skip"
    /\ Len(delivered) >= 2

====
